---- MODULE Spec2Model ----
(***************************************************************************)
(* Model of the backgammon rules engine: Game (game.rs), Board and         *)
(* Position (board.rs), Dice (dice.rs), Player (player.rs) and the         *)
(* location conversions (location.rs).                                     *)
(*                                                                         *)
(* The game loop Game::start reads a turn, validates it with check_turn on *)
(* a clone of the game, applies it with take_turn, and either ends the     *)
(* game or passes the turn with a fresh roll.  check_turn and take_turn    *)
(* are loops over the plays of the turn; the model takes one step per loop *)
(* iteration, so the states between two plays are states of the model.     *)
(***************************************************************************)
EXTENDS Integers, Sequences, FiniteSets, TLC

\* ------------------------------------------------------------------------
\* Program constants
\* ------------------------------------------------------------------------
BOARD_SIZE == 24
HOME_BOARD_INDEX == 5
SIDES == 6

\* ------------------------------------------------------------------------
\* Bounds of the model
\* ------------------------------------------------------------------------
\* number of accepted turns after which the loop is not followed further
MaxTurns == 1
\* number of entries of RollTable that Dice::reroll can produce
MaxRerolls == 1
\* largest usize given to a constructor of location.rs
MaxValue == 27
\* largest u8 given to Dice::remove and DiceRoll::consume
MaxCast == 7
\* largest number of tokens of the first group of a notation
MaxTokens == 3
\* largest number of groups of a notation
MaxGroups == 2

\* ------------------------------------------------------------------------
\* Player (player.rs)
\* ------------------------------------------------------------------------
Black == "Black"
White == "White"
None == "None"
Players == {Black, White}

\* Not for Player that takes Player::None for a player
Opponent_of_any(p) == IF p = White THEN Black ELSE White

\* impl Not for Player
Opponent(p) ==
  CASE p = Black -> White
    [] p = White -> Black
    [] OTHER -> None

\* ------------------------------------------------------------------------
\* PositionRef: Bar(player) | Rail(player) | Point(index)
\* ------------------------------------------------------------------------
Bar(p) == [kind |-> "Bar", player |-> p, index |-> 0]
Rail(p) == [kind |-> "Rail", player |-> p, index |-> 0]
Point(i) == [kind |-> "Point", player |-> None, index |-> i]

Indices == 0 .. (BOARD_SIZE - 1)
Spaces == {Bar(p) : p \in Players} \cup {Rail(p) : p \in Players}
            \cup {Point(i) : i \in Indices}

IsBar(s) == s.kind = "Bar"
IsRail(s) == s.kind = "Rail"

\* Play::new
Play(p, from, to) == [player |-> p, from |-> from, to |-> to]

\* ------------------------------------------------------------------------
\* Locations (location.rs)
\* ------------------------------------------------------------------------
\* IndexLocation::denormalize
Denormalize(i) == i + 1

\* DenormalizedLocation::to_index; -1 stands for Err(InvalidIndexLocation)
DenormToIndex(loc) ==
  IF loc = 0 \/ loc = BOARD_SIZE + 1 THEN -1 ELSE loc - 1

\* DenormalizedLocation::normalize
Normalize(loc, p) ==
  IF p = Black THEN loc ELSE (BOARD_SIZE + 1) - loc

\* NormalizedLocation::to_index that does not mirror White's position
NormToIndex_black(n, p) ==
  IF n = 0 \/ n = BOARD_SIZE + 1 THEN -1 ELSE n - 1

\* NormalizedLocation::to_index; -1 stands for Err(InvalidIndexLocation)
NormToIndex(n, p) ==
  IF n = 0 \/ n = BOARD_SIZE + 1 THEN -1
  ELSE IF p = Black THEN n - 1 ELSE (BOARD_SIZE + 1) - n - 1

\* Result<_, Error> of a constructor or a conversion: the value made, or the
\* error with the value (and the player) it carries
Made(value, p) == [tag |-> "Ok", value |-> value, player |-> p]
Invalid(tag, value, p) == [tag |-> tag, value |-> value, player |-> p]

\* NormalizedLocation::new
NormalizedNew(position, p) ==
  IF p = None THEN Invalid("InvalidNormalizedLocation", position, p)
  ELSE IF position >= 0 /\ position <= 25 THEN Made(position, p)
  ELSE Invalid("InvalidNormalizedLocation", position, p)

\* TryFrom<usize> for DenormalizedLocation
DenormalizedTryFrom(value) ==
  IF value >= 0 /\ value <= 25 THEN Made(value, None)
  ELSE Invalid("InvalidDenormalizedLocation", value, None)

\* IndexLocation::try_from that lets the value 24 through
IndexTryFrom_wide(value) ==
  IF value >= 0 /\ value <= BOARD_SIZE THEN Made(value, None)
  ELSE Invalid("InvalidIndexLocation", value, None)

\* TryFrom<usize> for IndexLocation
IndexTryFrom(value) ==
  IF value >= 0 /\ value <= 23 THEN Made(value, None)
  ELSE Invalid("InvalidIndexLocation", value, None)

\* IndexLocation::normalize that mirrors White's index around 24, not 25
IndexNormalize_short(i, p) ==
  IF p = Black THEN i + 1 ELSE BOARD_SIZE - (i + 1)

\* IndexLocation::normalize
IndexNormalize(i, p) ==
  IF p = Black THEN i + 1 ELSE (BOARD_SIZE + 1) - (i + 1)

\* NormalizedLocation::to_index, with its Result
normalized_to_index(n, p) ==
  IF NormToIndex(n, p) = -1 THEN Invalid("InvalidIndexLocation", n, None)
  ELSE IndexTryFrom(NormToIndex(n, p))

\* DenormalizedLocation::to_index, with its Result
denormalized_to_index(loc) ==
  IF DenormToIndex(loc) = -1 THEN Invalid("InvalidIndexLocation", loc, None)
  ELSE IndexTryFrom(DenormToIndex(loc))

\* ------------------------------------------------------------------------
\* Board and Position (board.rs)
\* ------------------------------------------------------------------------
Position(count, player) == [count |-> count, player |-> player]

\* Board::empty
EmptyBoard ==
  [points |-> [i \in Indices |-> Position(0, None)],
   bar    |-> [p \in Players |-> Position(0, p)],
   rail   |-> [p \in Players |-> Position(0, p)]]

\* Position::location of the position a PositionRef denotes, as Board::empty
\* sets it: bars at 25 (Black) and 0 (White), rails at 0 (Black) and 25 (White)
Location(s) ==
  CASE s.kind = "Bar"  -> IF s.player = Black THEN BOARD_SIZE + 1 ELSE 0
    [] s.kind = "Rail" -> IF s.player = Black THEN 0 ELSE BOARD_SIZE + 1
    [] OTHER           -> Denormalize(s.index)

\* Board::get
Get(b, s) ==
  CASE s.kind = "Bar"  -> b.bar[s.player]
    [] s.kind = "Rail" -> b.rail[s.player]
    [] OTHER           -> b.points[s.index]

\* Board::get_mut followed by an assignment of the whole position
Put(b, s, pos) ==
  CASE s.kind = "Bar"  -> [b EXCEPT !.bar[s.player] = pos]
    [] s.kind = "Rail" -> [b EXCEPT !.rail[s.player] = pos]
    [] OTHER           -> [b EXCEPT !.points[s.index] = pos]

\* Position::distance
Distance(from, to) ==
  IF Location(from) >= Location(to) THEN Location(from) - Location(to)
  ELSE Location(to) - Location(from)

\* any_behind that looks towards the same end of the board for both players
any_behind_one_side(b, index, p) ==
  \E i \in Indices :
    i > index /\ b.points[i].player = p /\ b.points[i].count > 0

\* any_behind that counts the pieces of both players
any_behind_anyone(b, index, p) ==
  IF p = Black
  THEN \E i \in Indices : i > index /\ b.points[i].count > 0
  ELSE \E i \in Indices : i < index /\ b.points[i].count > 0

\* Board::any_behind
any_behind(b, index, p) ==
  IF p = Black
  THEN \E i \in Indices : i > index /\ b.points[i].player = p /\ b.points[i].count > 0
  ELSE \E i \in Indices : i < index /\ b.points[i].player = p /\ b.points[i].count > 0

\* all_in_home with the boundary of the home table one point too far
all_in_home_wide(b, p) ==
  LET index == IF p = Black THEN HOME_BOARD_INDEX + 1
               ELSE BOARD_SIZE - 1 - HOME_BOARD_INDEX - 1
  IN ~any_behind(b, index, p)

\* Board::all_in_home
all_in_home(b, p) ==
  LET index == IF p = Black THEN HOME_BOARD_INDEX
               ELSE BOARD_SIZE - 1 - HOME_BOARD_INDEX
  IN ~any_behind(b, index, p)

\* Position::set through Board::point_mut, Board::bar_mut, Board::rail_mut
point_set(b, i, count, player) == [b EXCEPT !.points[i] = Position(count, player)]
bar_set(b, p, count) == [b EXCEPT !.bar[p] = Position(count, p)]
rail_set(b, p, count) == [b EXCEPT !.rail[p] = Position(count, p)]

\* Board::new with White's points counted from 24, not from 23
NewBoard_shifted ==
  LET offset == BOARD_SIZE
      b1 == point_set(EmptyBoard, 23, 2, Black)
      b2 == point_set(b1, 12, 5, Black)
      b3 == point_set(b2, 7, 3, Black)
      b4 == point_set(b3, 5, 5, Black)
      w1 == point_set(b4, offset - 23, 2, White)
      w2 == point_set(w1, offset - 12, 5, White)
      w3 == point_set(w2, offset - 7, 3, White)
  IN point_set(w3, offset - 5, 5, White)

\* Board::new
NewBoard ==
  LET offset == BOARD_SIZE - 1
      b1 == point_set(EmptyBoard, 23, 2, Black)
      b2 == point_set(b1, 12, 5, Black)
      b3 == point_set(b2, 7, 3, Black)
      b4 == point_set(b3, 5, 5, Black)
      w1 == point_set(b4, offset - 23, 2, White)
      w2 == point_set(w1, offset - 12, 5, White)
      w3 == point_set(w2, offset - 7, 3, White)
  IN point_set(w3, offset - 5, 5, White)

\* the pieces a player has on the 24 points
RECURSIVE on_points(_, _, _)
on_points(b, p, i) ==
  IF i = BOARD_SIZE THEN 0
  ELSE (IF b.points[i].player = p THEN b.points[i].count ELSE 0)
         + on_points(b, p, i + 1)

\* points + bar + rail of a player
total(b, p) == on_points(b, p, 0) + b.bar[p].count + b.rail[p].count

\* the pieces each player starts with
PIECES == total(NewBoard, Black)

\* Board::all_in_rail
all_in_rail(b, p) == b.rail[p].count = PIECES

\* is_valid_direction that lets a piece stay where it is
is_valid_direction_or_stay(play) ==
  IF play.player = White THEN Location(play.to) >= Location(play.from)
  ELSE Location(play.to) <= Location(play.from)

\* Play::is_valid_direction
is_valid_direction(play) ==
  IF play.player = White THEN Location(play.to) > Location(play.from)
  ELSE Location(play.to) < Location(play.from)

\* ------------------------------------------------------------------------
\* Dice (dice.rs): cast_freq maps a die value to the number of times it can
\* still be played; a value that is not a key of the map has count 0
\* ------------------------------------------------------------------------
Faces == 1 .. SIDES

\* cast_freq that doubles the count of a doubled value instead of 1 << count
DiceFrom_twice(d1, d2) ==
  [v \in Faces |->
     LET n == (IF d1 = v THEN 1 ELSE 0) + (IF d2 = v THEN 1 ELSE 0)
     IN IF n > 1 THEN 2 * n - 1 ELSE n]

\* Dice::cast_freq, Dice::from
DiceFrom(d1, d2) ==
  [v \in Faces |->
     LET n == (IF d1 = v THEN 1 ELSE 0) + (IF d2 = v THEN 1 ELSE 0)
     IN IF n > 1 THEN 2 ^ n ELSE n]

\* Dice::check
check(roll, cast) == cast \in Faces /\ roll[cast] > 0

\* Dice::remove that takes every use of the cast away
remove_all(roll, cast) == [roll EXCEPT ![cast] = 0]

\* Dice::remove (called only with an available cast)
remove(roll, cast) == [roll EXCEPT ![cast] = @ - 1]

\* Dice::available_rolls, as the set of the distinct values it yields
available_rolls(roll) == {v \in Faces : roll[v] > 0}

\* Dice::any_available
any_available(roll) == \E v \in Faces : roll[v] > 0

\* Dice::max; 0 stands for the panic of unwrap() on an exhausted roll and is
\* never used as a length: callers test any_available first
max(roll) ==
  IF any_available(roll)
  THEN CHOOSE v \in available_rolls(roll) : \A w \in available_rolls(roll) : w <= v
  ELSE 0

\* Dice::remove with its failure: the panic carries InvalidPlayLength(cast)
\* as its message and the roll is not written
try_remove(roll, cast) ==
  IF check(roll, cast)
  THEN [cast_freq |-> remove(roll, cast), res |-> [tag |-> "Ok", len |-> 0]]
  ELSE [cast_freq |-> roll, res |-> [tag |-> "Panic", len |-> cast]]

\* ------------------------------------------------------------------------
\* DiceRoll (dice_roll.rs): available is the sorted vector of the lengths
\* that can still be played
\* ------------------------------------------------------------------------
\* DiceRoll::calculate_available with a doubled value counted twice only
calculate_available_pair(d1, d2) ==
  IF d1 <= d2 THEN <<d1, d2>> ELSE <<d2, d1>>

\* DiceRoll::calculate_available
calculate_available(d1, d2) ==
  IF d1 = d2 THEN <<d1, d1, d1, d1>>
  ELSE IF d1 < d2 THEN <<d1, d2>>
  ELSE <<d2, d1>>

\* DiceRoll::consume that removes every instance of the value
DiceRoll_consume_all(available, value) ==
  IF \E i \in DOMAIN available : available[i] = value
  THEN [available |-> SelectSeq(available, LAMBDA d : d # value),
        res |-> [tag |-> "Ok", len |-> 0]]
  ELSE [available |-> available,
        res |-> [tag |-> "InvalidPlayLength", len |-> value]]

\* DiceRoll::consume
DiceRoll_consume(available, value) ==
  IF \E i \in DOMAIN available : available[i] = value
  THEN LET index == CHOOSE i \in DOMAIN available :
                      /\ available[i] = value
                      /\ \A j \in DOMAIN available : available[j] = value => i <= j
       IN [available |-> SubSeq(available, 1, index - 1)
                           \o SubSeq(available, index + 1, Len(available)),
           res |-> [tag |-> "Ok", len |-> 0]]
  ELSE [available |-> available,
        res |-> [tag |-> "InvalidPlayLength", len |-> value]]

\* ------------------------------------------------------------------------
\* Game (game.rs): [board, current_roll, current_player]
\* ------------------------------------------------------------------------
Game(p, roll, b) == [current_player |-> p, current_roll |-> roll, board |-> b]

\* Result<(), Error>; len is the payload of InvalidPlayLength.  "Panic" is
\* the abort of an expect()/unwrap() inside the call.
Res(tag) == [tag |-> tag, len |-> 0]
Ok == Res("Ok")
InvalidPlayLength(len) == [tag |-> "InvalidPlayLength", len |-> len]
Panic == Res("Panic")

\* check_length that lets a piece be borne off with a greater roll while a
\* piece is behind it
check_length_any_behind(g, play) ==
  LET len == Distance(play.to, play.from)
  IN IF check(g.current_roll, len) THEN Ok
     ELSE LET index == DenormToIndex(Location(play.from))
          IN IF index = -1 THEN Panic
             ELSE IF ~IsRail(play.to) THEN InvalidPlayLength(len)
             ELSE IF ~any_available(g.current_roll) THEN Panic
             ELSE IF len > max(g.current_roll) THEN InvalidPlayLength(len)
             ELSE Ok

\* Game::check_play, l.174-189: the play passed guards 1-8
check_length(g, play) ==
  LET len == Distance(play.to, play.from)
  IN IF check(g.current_roll, len) THEN Ok
     ELSE LET index == DenormToIndex(Location(play.from))
          IN IF index = -1 THEN Panic
             ELSE IF ~IsRail(play.to) THEN InvalidPlayLength(len)
             ELSE IF any_behind(g.board, index, play.player) THEN InvalidPlayLength(len)
             ELSE IF ~any_available(g.current_roll) THEN Panic
             ELSE IF len > max(g.current_roll) THEN InvalidPlayLength(len)
             ELSE Ok

\* Game::check_play l.127: the play is not the current player's
out_of_turn(g, play) == g.current_player # play.player

\* bar_filled that tolerates one piece on the bar
bar_filled_second(g, play) ==
  g.board.bar[play.player].count > 1 /\ ~IsBar(play.from)

\* Game::check_play l.132: a piece waits on the bar and the play leaves it there
bar_filled(g, play) ==
  g.board.bar[play.player].count > 0 /\ ~IsBar(play.from)

\* Game::check_play l.147: bearing off with a piece outside the home table
invalid_bear_off(g, play) ==
  IsRail(play.to) /\ ~all_in_home(g.board, play.player)

\* onto_opposing_piece that lets a play land on a stack of two
onto_opposing_three(g, play) ==
  LET to == Get(g.board, play.to)
  IN to.player = Opponent(play.player) /\ to.count > 2

\* Game::check_play l.170: the destination is an opposing point
onto_opposing_piece(g, play) ==
  LET to == Get(g.board, play.to)
  IN to.player = Opponent(play.player) /\ to.count > 1

\* check_play without the guard of l.137: a piece may leave the rail
check_play_from_rail(g, play) ==
  IF out_of_turn(g, play) THEN Res("PlayMadeOutOfTurn")
  ELSE IF bar_filled(g, play) THEN Res("PlayMadeWithBarFilled")
  ELSE IF IsBar(play.to) THEN Res("PlayMadeToBar")
  ELSE IF invalid_bear_off(g, play) THEN Res("InvalidBearOff")
  ELSE IF Get(g.board, play.from).count = 0 THEN Res("PlayMadeFromEmptyPoint")
  ELSE IF Get(g.board, play.from).player # play.player
    THEN Res("PlayMadeWithOpposingPiece")
  ELSE IF ~is_valid_direction(play) THEN Res("InvalidPlayDirection")
  ELSE IF onto_opposing_piece(g, play) THEN Res("PlayMadeOntoOpposingPiece")
  ELSE check_length(g, play)

\* Game::check_play
check_play(g, play) ==
  IF out_of_turn(g, play) THEN Res("PlayMadeOutOfTurn")
  ELSE IF bar_filled(g, play) THEN Res("PlayMadeWithBarFilled")
  ELSE IF IsRail(play.from) THEN Res("PlayMadeFromRail")
  ELSE IF IsBar(play.to) THEN Res("PlayMadeToBar")
  ELSE IF invalid_bear_off(g, play) THEN Res("InvalidBearOff")
  ELSE IF Get(g.board, play.from).count = 0 THEN Res("PlayMadeFromEmptyPoint")
  ELSE IF Get(g.board, play.from).player # play.player
    THEN Res("PlayMadeWithOpposingPiece")
  ELSE IF ~is_valid_direction(play) THEN Res("InvalidPlayDirection")
  ELSE IF onto_opposing_piece(g, play) THEN Res("PlayMadeOntoOpposingPiece")
  ELSE check_length(g, play)

\* make_play that removes the smallest die for a bear-off with a greater roll
consume_smallest(roll, play) ==
  LET len == Distance(play.to, play.from)
  IN IF check(roll, len) THEN remove(roll, len)
     ELSE remove(roll, CHOOSE v \in available_rolls(roll) :
                         \A w \in available_rolls(roll) : v <= w)

\* Game::make_play, l.199-219: the die the play consumes
consume(roll, play) ==
  LET len == Distance(play.to, play.from)
  IN IF check(roll, len) THEN remove(roll, len) ELSE remove(roll, max(roll))

\* hit_blot that takes the blot off the point and forgets to put it on the bar
hit_blot_lost(b, play) ==
  LET to == Get(b, play.to)
  IN IF to.player = Opponent(play.player) /\ to.count = 1
     THEN Put(b, play.to, Position(0, None))
     ELSE b

\* hit_blot that puts the blot on the bar and leaves it on the point too
hit_blot_stacked(b, play) ==
  LET to == Get(b, play.to)
  IN IF to.player = Opponent(play.player) /\ to.count = 1
     THEN [b EXCEPT !.bar[to.player].count = @ + 1]
     ELSE b

\* Game::make_play, l.221-230: a blot on the destination goes to its owner's bar
hit_blot(b, play) ==
  LET to == Get(b, play.to)
  IN IF to.player = Opponent(play.player) /\ to.count = 1
     THEN LET b1 == Put(b, play.to, Position(0, None))
          IN [b1 EXCEPT !.bar[to.player].count = @ + 1]
     ELSE b

\* move_piece that leaves the owner on a point it emptied
move_piece_owned(b, play) ==
  LET b1 == Put(b, play.from, [Get(b, play.from) EXCEPT !.count = @ - 1])
  IN Put(b1, play.to, Position(Get(b1, play.to).count + 1, play.player))

\* Game::make_play, l.232-246: the piece leaves the origin and lands
move_piece(b, play) ==
  LET b1 == Put(b, play.from, [Get(b, play.from) EXCEPT !.count = @ - 1])
      b2 == Put(b1, play.to, Position(Get(b1, play.to).count + 1, play.player))
      from == Get(b2, play.from)
  IN IF from.count = 0 /\ ~IsBar(play.from)
     THEN Put(b2, play.from, [from EXCEPT !.player = None])
     ELSE b2

\* Game::make_play, the step that fails when the play is made in game g, "Ok"
\* when none does: the assert of l.209, the expect of l.211-214, the assert
\* of l.216, the unwrap of Dice::max and the panic of Dice::remove (l.204,
\* l.218), the subtraction of l.234 from a count of 0
make_play_fails(g, play) ==
  LET len == Distance(play.to, play.from)
      roll == g.current_roll
      removed == IF check(roll, len) THEN "Ok"
                 ELSE IF ~IsRail(play.to) THEN "AssertRail"
                 ELSE IF DenormToIndex(Location(play.from)) = -1 THEN "Index"
                 ELSE IF any_behind(g.board, DenormToIndex(Location(play.from)),
                                    play.player)
                   THEN "AssertBehind"
                 ELSE IF ~any_available(roll) THEN "Max"
                 ELSE IF try_remove(roll, max(roll)).res.tag # "Ok" THEN "Remove"
                 ELSE "Ok"
  IN IF removed # "Ok" THEN removed
     ELSE IF Get(hit_blot(g.board, play), play.from).count = 0 THEN "Underflow"
     ELSE "Ok"

\* Game::make_play
make_play(g, play) ==
  [g EXCEPT !.current_roll = consume(g.current_roll, play),
            !.board = move_piece(hit_blot(g.board, play), play)]

\* board_iter that never starts from the bar
board_iter_points(b, p) ==
  {Point(i) : i \in {j \in Indices : b.points[j].player = p}}

\* Game::take_turn, and the loop of Game::check_turn l.101-104 on its copy:
\* the game after the plays of a turn were made in order
RECURSIVE take_turn(_, _)
take_turn(g, t) ==
  IF t = <<>> THEN g ELSE take_turn(make_play(g, Head(t)), Tail(t))

\* Game::get_available_plays, board_iter
board_iter(b, p) ==
  IF b.bar[p].count > 0 THEN {Bar(p)}
  ELSE {Point(i) : i \in {j \in Indices : b.points[j].player = p}}

\* destination that leaves the piece on its point when the roll is greater
\* than the way to the rail
destination_exact(from, roll, p) ==
  LET from_location == Normalize(Location(from), p)
      to_location == IF from_location >= roll THEN from_location - roll
                     ELSE from_location
      index == NormToIndex(to_location, p)
  IN IF index = -1 THEN Rail(p) ELSE Point(index)

\* Game::get_available_plays, the destination computed for an origin and a roll
destination(from, roll, p) ==
  LET from_location == Normalize(Location(from), p)
      to_location == IF from_location >= roll THEN from_location - roll ELSE 0
      index == NormToIndex(to_location, p)
  IN IF index = -1 THEN Rail(p) ELSE Point(index)

\* Game::get_available_plays
get_available_plays(g) ==
  LET p == g.current_player
      candidates == {Play(p, from, destination(from, roll, p)) :
                       from \in board_iter(g.board, p),
                       roll \in available_rolls(g.current_roll)}
  IN {play \in candidates : check_play(g, play) = Ok}

\* _get_available_turns that returns no turn, not the empty turn, when no
\* play is available
RECURSIVE _get_available_turns_no_leaf(_)
_get_available_turns_no_leaf(g) ==
  LET plays == get_available_plays(g)
  IN IF plays = {} THEN {}
     ELSE UNION {{<<play>> \o next_plays :
                    next_plays \in _get_available_turns_no_leaf(make_play(g, play))} :
                 play \in plays}

\* Game::get_available_turns::_get_available_turns, as the set of the
\* sequences of plays the recursion returns
RECURSIVE _get_available_turns(_)
_get_available_turns(g) ==
  LET plays == get_available_plays(g)
  IN IF plays = {} THEN {<<>>}
     ELSE UNION {{<<play>> \o next_plays :
                    next_plays \in _get_available_turns(make_play(g, play))} :
                 play \in plays}

\* Turn::distance
RECURSIVE turn_distance(_)
turn_distance(turn) ==
  IF turn = <<>> THEN 0
  ELSE Distance(Head(turn).to, Head(turn).from) + turn_distance(Tail(turn))

\* get_available_turns without the filter on the distance
get_available_turns_all(g) == _get_available_turns(g)

\* Game::get_available_turns
get_available_turns(g) ==
  LET turns == _get_available_turns(g)
      dists == {turn_distance(t) : t \in turns}
      mx == CHOOSE d \in dists : \A e \in dists : e <= d
  IN {t \in turns : turn_distance(t) = mx}

\* ------------------------------------------------------------------------
\* Positions the games of the model start from.  Game::new gives the
\* standard start; the others are built like the boards of the tests of
\* game.rs (Board::empty and Position::set, Game::from), with the pieces
\* that are not in play borne off, so that each side owns PIECES pieces.
\* ------------------------------------------------------------------------
\* White has two pieces behind Black blots (test::hit, reduced)
HitBoard ==
  LET b1 == point_set(EmptyBoard, 0, 2, White)
      b2 == point_set(b1, 2, 1, Black)
      b3 == point_set(b2, 3, 1, Black)
      b4 == point_set(b3, 5, 2, Black)
  IN rail_set(rail_set(b4, White, 13), Black, 11)

\* Black has a piece on the bar; White holds two entry points and a blot
\* (test::black_from_bar_1, with White's pieces added)
BarBoard ==
  LET b1 == bar_set(EmptyBoard, Black, 1)
      b2 == point_set(b1, 7, 2, Black)
      b3 == point_set(b2, 23, 2, White)
      b4 == point_set(b3, 20, 2, White)
      b5 == point_set(b4, 18, 1, White)
  IN rail_set(rail_set(b5, Black, 12), White, 10)

\* both sides bear off (test::invalid_play_length_2 with the point of
\* test::bear_off_3)
BearOffBoard ==
  LET b1 == point_set(EmptyBoard, 5, 1, Black)
      b2 == point_set(b1, 4, 2, Black)
      b3 == point_set(b2, 3, 1, Black)
      b4 == point_set(b3, 19, 3, White)
  IN rail_set(rail_set(b4, Black, 11), White, 12)

\* White's two pieces among Black's blocks (test::non_maximal_turn, reduced)
BlockedBoard ==
  LET b1 == point_set(EmptyBoard, 3, 1, White)
      b2 == point_set(b1, 10, 1, White)
      b3 == point_set(b2, 6, 2, Black)
      b4 == point_set(b3, 11, 2, Black)
      b5 == point_set(b4, 13, 2, Black)
  IN rail_set(rail_set(b5, White, 13), Black, 9)

\* the last pieces of both sides
LastBoard ==
  LET b1 == point_set(EmptyBoard, 0, 1, Black)
      b2 == point_set(b1, 22, 1, White)
      b3 == point_set(b2, 23, 1, White)
  IN rail_set(rail_set(b3, Black, 14), White, 13)

\* Black has a piece outside the home table, White a piece on the bar
\* (test::invalid_bear_off, with White's pieces and a Black blot added)
EntryBoard ==
  LET b1 == point_set(EmptyBoard, 6, 1, Black)
      b2 == point_set(b1, 3, 2, Black)
      b3 == point_set(b2, 1, 1, Black)
      b4 == bar_set(b3, White, 1)
      b5 == point_set(b4, 18, 2, White)
  IN rail_set(rail_set(b5, Black, 11), White, 12)

\* Dice::roll, as the table of the rolls the model draws from: the rolls of
\* Dice::reroll are its first MaxRerolls entries
RollTable == << <<3, 1>>, <<6, 5>>, <<4, 2>>, <<2, 2>>, <<6, 6>>, <<5, 3>> >>
Rerolls ==
  {DiceFrom(RollTable[i][1], RollTable[i][2]) :
     i \in {j \in 1 .. Len(RollTable) : j <= MaxRerolls}}

\* Dice::first_roll that returns its first roll whatever it shows
all_one_or_more(roll) == \A v \in Faces : roll[v] >= 0

\* Dice::first_roll l.82, DiceRoll::opening l.48: the condition the loop
\* returns the roll on
all_one(roll) == \A v \in Faces : roll[v] > 0 => roll[v] = 1

\* Dice::first_roll: rolls again until the two dice differ
FirstRolls == {roll \in Rerolls : all_one(roll)}

\* Game::from(player, Dice::from(dice), board): the games built on the boards
Built(p, d1, d2, b) == Game(p, DiceFrom(d1, d2), b)
BuiltGames ==
  { Built(White, 3, 2, HitBoard),      Built(White, 5, 4, HitBoard),
    Built(White, 2, 2, HitBoard),      Built(Black, 3, 2, HitBoard),
    Built(Black, 4, 6, BarBoard),      Built(Black, 1, 4, BarBoard),
    Built(Black, 6, 6, BarBoard),      Built(Black, 3, 5, BarBoard),
    Built(Black, 3, 6, BearOffBoard),  Built(Black, 5, 4, BearOffBoard),
    Built(Black, 6, 6, BearOffBoard),  Built(White, 6, 5, BearOffBoard),
    Built(White, 1, 1, BearOffBoard),  Built(White, 2, 3, BearOffBoard),
    Built(White, 3, 5, BlockedBoard),  Built(White, 5, 5, BlockedBoard),
    Built(Black, 2, 1, BlockedBoard),
    Built(Black, 1, 2, LastBoard),     Built(White, 2, 1, LastBoard),
    Built(White, 6, 4, LastBoard),
    Built(White, 2, 4, EntryBoard),    Built(Black, 1, 3, EntryBoard),
    Built(Black, 6, 3, EntryBoard) }

\* the plays a turn can be made of: Play::new for a player, with that
\* player's bar and rail (the turn! macro, Notation::turn)
PlayerSpaces(p) == {Bar(p), Rail(p)} \cup {Point(i) : i \in Indices}
InputPlays ==
  UNION {{Play(p, from, to) : from \in PlayerSpaces(p), to \in PlayerSpaces(p)} :
           p \in Players}

\* ------------------------------------------------------------------------
\* Notation (notation.rs). The input is the sequence of its groups, the
\* texts split_whitespace yields; a group is the sequence of the tokens its
\* text has between the '/'. A token is "bar", "off", digits usize parses
\* ("num", with the value), digits that \d+ matches and usize does not parse
\* ("big": more digits than usize holds), or any other text ("junk", the
\* empty text included). NormalizedPosition of position.rs is
\* NormalizedLocation of location.rs under its older name.
\* ------------------------------------------------------------------------
Token(kind, n) == [kind |-> kind, n |-> n]
Num(n) == Token("num", n)
Digits == {"num", "big"}

\* a regex that does not anchor "bar" and "off" to the ends of the group
re_find_anywhere(group) ==
  /\ Len(group) >= 2
  /\ \A k \in DOMAIN group : group[k].kind \in Digits \cup {"bar", "off"}

\* re.find(group) is Some: ^(\d+|bar)(/\d+)*(/(\d+|off))$
re_find(group) ==
  /\ Len(group) >= 2
  /\ group[1].kind \in Digits \cup {"bar"}
  /\ \A k \in 2 .. Len(group) - 1 : group[k].kind \in Digits
  /\ group[Len(group)].kind \in Digits \cup {"off"}

\* the closure of get_board_positions: the space of one token, or the error
\* of NormalizedPosition::new or of to_index, or the panic of expect
board_position(token, p) ==
  CASE token.kind = "bar" -> [out |-> Made(0, p), space |-> Bar(p)]
    [] token.kind = "off" -> [out |-> Made(0, p), space |-> Rail(p)]
    [] token.kind = "num" ->
         IF NormalizedNew(token.n, p).tag # "Ok"
         THEN [out |-> NormalizedNew(token.n, p), space |-> Bar(None)]
         ELSE IF normalized_to_index(token.n, p).tag # "Ok"
         THEN [out |-> normalized_to_index(token.n, p), space |-> Bar(None)]
         ELSE [out |-> Made(0, p),
               space |-> Point(normalized_to_index(token.n, p).value)]
    [] OTHER -> [out |-> Invalid("Panic", 0, None), space |-> Bar(None)]

\* Notation::get_board_positions: collect() stops at the first error
get_board_positions(group, p) ==
  LET bad == {k \in DOMAIN group : board_position(group[k], p).out.tag # "Ok"}
  IN IF bad = {}
     THEN [out |-> Made(0, p),
           positions |-> [k \in DOMAIN group |->
                            board_position(group[k], p).space]]
     ELSE [out |-> board_position(
                     group[CHOOSE k \in bad : \A j \in bad : k <= j], p).out,
           positions |-> <<>>]

\* get_play_group with tuples(), the pairs that do not overlap, in the place
\* of tuple_windows()
get_play_group_tuples(group, p) ==
  LET got == get_board_positions(group, p)
  IN [out |-> got.out,
      plays |-> [k \in 1 .. (Len(got.positions) \div 2) |->
                   Play(p, got.positions[2 * k - 1], got.positions[2 * k])]]

\* Notation::get_play_group
get_play_group(group, p) ==
  LET got == get_board_positions(group, p)
  IN [out |-> got.out,
      plays |-> IF got.out.tag # "Ok" THEN <<>>
                ELSE [k \in 1 .. Len(got.positions) - 1 |->
                        Play(p, got.positions[k], got.positions[k + 1])]]

\* Result<Turn, Error> of Notation::turn: the plays, or the error and, of
\* InvalidNotation, the text it carries
Parsed(plays) == [out |-> Made(0, None), text |-> <<>>, plays |-> plays]
Failed(out, text) == [out |-> out, text |-> text, plays |-> <<>>]

\* Notation::turn: the groups in the order of the input, up to the first
\* error; sofar holds the plays of the groups before
RECURSIVE turn_groups(_, _, _)
turn_groups(groups, p, sofar) ==
  IF groups = <<>> THEN Parsed(sofar)
  ELSE IF ~re_find(Head(groups))
       THEN Failed(Invalid("InvalidNotation", 0, None), Head(groups))
  ELSE IF get_play_group(Head(groups), p).out.tag # "Ok"
       THEN Failed(get_play_group(Head(groups), p).out, <<>>)
  ELSE turn_groups(Tail(groups), p, sofar \o get_play_group(Head(groups), p).plays)

Notation_turn(notation, p) == turn_groups(notation, p, <<>>)

\* Display for Play that writes the number of a point from Black's side for
\* both players
Display_absolute(play) ==
  IF IsRail(play.from) \/ IsBar(play.to)
  THEN [out |-> Invalid("Panic", 0, None), group |-> <<>>]
  ELSE [out |-> Made(0, play.player),
        group |->
          <<IF IsBar(play.from) THEN Token("bar", 0)
            ELSE Num(IndexNormalize(play.from.index, Black)),
            IF IsRail(play.to) THEN Token("off", 0)
            ELSE Num(IndexNormalize(play.to.index, Black))>>]

\* Display for Play: the text "<from>/<to>" as its two tokens; a rail as
\* origin and a bar as destination panic
Display(play) ==
  IF IsRail(play.from) \/ IsBar(play.to)
  THEN [out |-> Invalid("Panic", 0, None), group |-> <<>>]
  ELSE [out |-> Made(0, play.player),
        group |->
          <<IF IsBar(play.from) THEN Token("bar", 0)
            ELSE Num(IndexNormalize(play.from.index, play.player)),
            IF IsRail(play.to) THEN Token("off", 0)
            ELSE Num(IndexNormalize(play.to.index, play.player))>>]

\* the texts of the plays of a turn, one group each
Rendered(t) == [k \in DOMAIN t |-> Display(t[k]).group]

\* ------------------------------------------------------------------------
\* Calls made on their own: the arguments a, b, p, the rolls before and
\* after (of Dice and of DiceRoll), the result, the input of Notation::turn
\* with the text and the plays of its result, and whether the call was made
\* ------------------------------------------------------------------------
Rolls(cast_freq, available) == [cast_freq |-> cast_freq, available |-> available]
NoRolls == Rolls([v \in Faces |-> 0], <<>>)
NoResult == [tag |-> "None", value |-> 0, player |-> None]

Call(op, a, b, p) ==
  [op |-> op, a |-> a, b |-> b, player |-> p, before |-> NoRolls,
   after |-> NoRolls, out |-> NoResult, res |-> Res("None"),
   res_roll |-> Res("None"), notation |-> <<>>, text |-> <<>>,
   plays |-> <<>>, done |-> FALSE]
NoUnit == Call("none", 0, 0, None)

\* ------------------------------------------------------------------------
\* The state machine
\* ------------------------------------------------------------------------
VARIABLES
  game,     \* self: the Game the loop of Game::start owns
  saved,    \* saved_board and saved_roll of Game::start
  pc,       \* "prompt" | "check" | "take" | "won" | "panicked"
  clone,    \* check_turn's copy of the game while pc = "check"
  turn,     \* check: the plays checked so far; take: the plays still to make
  result,   \* the result of the last check_turn
  avail,    \* check: self.get_available_turns(), of the unchanged self
  nturns,   \* the turns taken so far
  unit      \* the call of a conversion, a constructor or a Dice method made
            \* on its own, outside a game: its arguments and its result

game_vars == <<game, saved, pc, clone, turn, result, avail, nturns>>
vars == <<game, saved, pc, clone, turn, result, avail, nturns, unit>>

\* no copy is alive
NoGame == Game(None, [v \in Faces |-> 0], EmptyBoard)

\* Game::start l.42-43
Saved(g) == [board |-> g.board, roll |-> g.current_roll]

\* Game::new or Game::from, then Game::start up to the first prompt
Init ==
  /\ \/ \E p \in Players, roll \in FirstRolls : game = Game(p, roll, NewBoard)
     \/ game \in BuiltGames
  /\ saved = Saved(game)
  /\ pc = "prompt"
  /\ clone = NoGame
  /\ turn = <<>>
  /\ result = Res("None")
  /\ avail = {}
  /\ nturns = 0
  /\ unit = NoUnit

\* Game::start l.42-63, Game::check_turn l.98: a turn was read, check_turn
\* copies the game.  check_turn evaluates self.get_available_turns() at l.110;
\* self does not change during check_turn, so the value is the one of this
\* state, and the model computes it here once.
ReadTurn ==
  /\ pc = "prompt"
  /\ nturns < MaxTurns
  /\ pc' = "check"
  /\ clone' = game
  /\ turn' = <<>>
  /\ avail' = get_available_turns(game)
  /\ result' = Res("None")
  /\ UNCHANGED <<game, saved, nturns, unit>>

\* groups of an input: groups of the tests of turn.rs and groups with a
\* position no point has
SampleGroups ==
  {<<Num(13), Num(7), Num(5)>>, <<Token("bar", 0), Num(20)>>,
   <<Num(3), Token("off", 0)>>, <<Num(3), Token("bar", 0)>>,
   <<Token("off", 0), Num(3), Num(5)>>, <<Num(0), Num(3)>>,
   <<Num(26), Num(2)>>}

\* Game::get_notation: inputs the loop reads that Notation::turn may not
\* parse, one group each (the groups of SampleGroups and a number usize does
\* not hold)
LoopInputs ==
  {<<group>> : group \in SampleGroups \cup {<<Num(6), Token("big", 0)>>}}

\* what Notation::turn returns for the inputs of the loop
ReadResults(p) == {Notation_turn(notation, p).out.tag : notation \in LoopInputs}

\* Game::start l.55-61: Notation::turn returns an error, the loop prints it
\* and prompts again (no more input is read once MaxTurns turns were taken)
ReadError ==
  /\ pc = "prompt"
  /\ nturns < MaxTurns
  /\ \E tag \in ReadResults(game.current_player) \ {"Ok", "Panic"} :
       result' = Res(tag)
  /\ UNCHANGED <<game, saved, pc, clone, turn, avail, nturns, unit>>

\* Game::start l.55: an expect() inside Notation::turn aborts the program
ReadPanic ==
  /\ pc = "prompt"
  /\ nturns < MaxTurns
  /\ "Panic" \in ReadResults(game.current_player)
  /\ pc' = "panicked"
  /\ result' = Panic
  /\ UNCHANGED <<game, saved, clone, turn, avail, nturns, unit>>

\* a rejection after a check_turn that made the plays on the game itself,
\* without the restore
Rejected_in_place(r) ==
  /\ pc' = "prompt"
  /\ result' = r
  /\ clone' = NoGame
  /\ turn' = <<>>
  /\ avail' = {}
  /\ game' = clone
  /\ saved' = Saved(game')
  /\ UNCHANGED <<nturns, unit>>

\* check_turn returned an error: Game::start l.63-68 restores the saved
\* board and roll, and the next iteration saves them again and prompts
Rejected(r) ==
  /\ pc' = "prompt"
  /\ result' = r
  /\ clone' = NoGame
  /\ turn' = <<>>
  /\ avail' = {}
  /\ game' = [game EXCEPT !.board = saved.board, !.current_roll = saved.roll]
  /\ saved' = Saved(game')
  /\ UNCHANGED <<nturns, unit>>

\* check_turn that checks every play against the game before the turn
CheckPlayOk_stale ==
  /\ pc = "check"
  /\ \E play \in InputPlays :
       /\ check_play(game, play) = Ok
       /\ clone' = make_play(clone, play)
       /\ turn' = Append(turn, play)
  /\ UNCHANGED <<game, saved, pc, result, avail, nturns, unit>>

\* Game::check_turn l.101-104: the next play of the turn passes check_play
CheckPlayOk ==
  /\ pc = "check"
  /\ \E play \in InputPlays :
       /\ check_play(clone, play) = Ok
       /\ clone' = make_play(clone, play)
       /\ turn' = Append(turn, play)
  /\ UNCHANGED <<game, saved, pc, result, avail, nturns, unit>>

\* Game::check_turn l.102: the next play of the turn fails check_play
CheckPlayErr ==
  /\ pc = "check"
  /\ \E r \in {check_play(clone, play) : play \in InputPlays} \ {Ok, Panic} :
       Rejected(r)

\* Game::check_play l.178-185: an expect() or unwrap() aborts the program
CheckPlayPanic ==
  /\ pc = "check"
  /\ \E play \in InputPlays : check_play(clone, play) = Panic
  /\ pc' = "panicked"
  /\ result' = Panic
  /\ clone' = NoGame
  /\ turn' = <<>>
  /\ avail' = {}
  /\ UNCHANGED <<game, saved, nturns, unit>>

\* the test of l.106 without its second half: a die is left
is_incomplete_dice(g) == any_available(g.current_roll)

\* Game::check_turn l.106-108
is_incomplete(g) ==
  any_available(g.current_roll) /\ get_available_plays(g) # {}

\* the end of check_turn with its two tests in the other order
end_of_turn_swapped(c, t, av) ==
  IF t \notin av THEN Res("NonMaximalTurn")
  ELSE IF is_incomplete(c) THEN Res("IncompleteTurn")
  ELSE Ok

\* Game::check_turn l.106-114, after the loop: c is the copy the plays of
\* turn t were made on, av is self.get_available_turns()
end_of_turn(c, t, av) ==
  IF is_incomplete(c) THEN Res("IncompleteTurn")
  ELSE IF t \notin av THEN Res("NonMaximalTurn")
  ELSE Ok

\* Game::check_turn l.101-114, from inside its loop: c is the copy the plays
\* done were made on, rest are the plays of the turn still to check, av is
\* self.get_available_turns().  The ? of l.102 returns the first error.
RECURSIVE check_turn_loop(_, _, _, _)
check_turn_loop(c, done, rest, av) ==
  IF rest = <<>> THEN end_of_turn(c, done, av)
  ELSE LET r == check_play(c, Head(rest))
       IN IF r # Ok THEN r
          ELSE check_turn_loop(make_play(c, Head(rest)),
                               Append(done, Head(rest)), Tail(rest), av)

\* Game::check_turn
check_turn(g, t) == check_turn_loop(g, <<>>, t, get_available_turns(g))

\* Game::check_turn l.106-108: the turn ends with dice and plays left
CheckTurnIncomplete ==
  /\ pc = "check"
  /\ end_of_turn(clone, turn, avail) = Res("IncompleteTurn")
  /\ Rejected(Res("IncompleteTurn"))

\* Game::check_turn l.110-112: the turn is not among the available turns
CheckTurnNonMaximal ==
  /\ pc = "check"
  /\ end_of_turn(clone, turn, avail) = Res("NonMaximalTurn")
  /\ Rejected(Res("NonMaximalTurn"))

\* Game::check_turn l.114, Game::start l.70: the turn is accepted
CheckTurnOk ==
  /\ pc = "check"
  /\ end_of_turn(clone, turn, avail) = Ok
  /\ pc' = "take"
  /\ result' = Ok
  /\ clone' = NoGame
  /\ avail' = {}
  /\ UNCHANGED <<game, saved, turn, nturns, unit>>

\* Game::take_turn: the next play of the accepted turn is made
TakePlay ==
  /\ pc = "take"
  /\ turn # <<>>
  /\ game' = make_play(game, Head(turn))
  /\ turn' = Tail(turn)
  /\ UNCHANGED <<saved, pc, clone, result, avail, nturns, unit>>

\* a loop that ends after any turn that was taken
Won_after_any_turn ==
  /\ pc = "take"
  /\ turn = <<>>
  /\ pc' = "won"
  /\ UNCHANGED <<game, saved, clone, turn, result, avail, nturns, unit>>

\* Game::start l.72-74: the player who moved has every piece on the rail
Won ==
  /\ pc = "take"
  /\ turn = <<>>
  /\ all_in_rail(game.board, game.current_player)
  /\ pc' = "won"
  /\ UNCHANGED <<game, saved, clone, turn, result, avail, nturns, unit>>

\* change_turn that rolls again and leaves the turn with the player
ChangeTurn_same_player ==
  /\ pc = "take"
  /\ turn = <<>>
  /\ ~all_in_rail(game.board, game.current_player)
  /\ \E roll \in Rerolls : game' = [game EXCEPT !.current_roll = roll]
  /\ saved' = Saved(game')
  /\ pc' = "prompt"
  /\ nturns' = nturns + 1
  /\ UNCHANGED <<clone, turn, result, avail, unit>>

\* Game::start l.75, Game::change_turn: a fresh roll for the opponent; the
\* next iteration saves the board and the roll and prompts
ChangeTurn ==
  /\ pc = "take"
  /\ turn = <<>>
  /\ ~all_in_rail(game.board, game.current_player)
  /\ \E roll \in Rerolls :
       game' = [game EXCEPT !.current_roll = roll,
                            !.current_player = Opponent(game.current_player)]
  /\ saved' = Saved(game')
  /\ pc' = "prompt"
  /\ nturns' = nturns + 1
  /\ UNCHANGED <<clone, turn, result, avail, unit>>

Next ==
  \/ ReadTurn
  \/ ReadError
  \/ ReadPanic
  \/ CheckPlayOk
  \/ CheckPlayErr
  \/ CheckPlayPanic
  \/ CheckTurnIncomplete
  \/ CheckTurnNonMaximal
  \/ CheckTurnOk
  \/ TakePlay
  \/ Won
  \/ ChangeTurn

Spec == Init /\ [][Next]_vars

\* ------------------------------------------------------------------------
\* The calls made on their own: a call with its arguments is chosen, then
\* made; the Dice methods go on with the roll the call before left
\* ------------------------------------------------------------------------
\* the arguments of the calls
\* the tokens of the first group of an input: every sequence of them up to
\* MaxTokens is tried
Alphabet ==
  {Token("bar", 0), Token("off", 0), Token("junk", 0), Token("big", 0),
   Num(6), Num(25)}
FirstGroups == UNION {[1 .. n -> Alphabet] : n \in 1 .. MaxTokens}

\* the groups that follow the first are groups of SampleGroups
Notations ==
  {<<>>} \cup
  {<<first>> \o rest :
     first \in FirstGroups,
     rest \in UNION {[1 .. n -> SampleGroups] : n \in 0 .. MaxGroups - 1}}

\* the boards Board::all_in_home is called on: a piece of each player on
\* any two points, and the boards of the games
HomeBoards ==
  {point_set(point_set(EmptyBoard, ij[1], 1, Black), ij[2], 1, White) :
     ij \in {x \in Indices \X Indices : x[1] # x[2]}}
    \cup {NewBoard, HitBoard, BarBoard, BearOffBoard, BlockedBoard, LastBoard,
          EntryBoard}

UnitInputs ==
  {Call("from", d1, d2, None) : d1 \in Faces, d2 \in Faces}
    \cup {Call("normalized_new", a, 0, p) :
            a \in 0 .. MaxValue, p \in Players \cup {None}}
    \cup {Call("denormalized_try_from", a, 0, None) : a \in 0 .. MaxValue}
    \cup {Call("index_try_from", a, 0, None) : a \in 0 .. MaxValue}
    \cup {Call("normalized_to_index", a, 0, p) : a \in 0 .. 25, p \in Players}
    \cup {Call("denormalized_to_index", a, 0, None) : a \in 0 .. 25}
    \cup {Call("index_normalize", i, 0, p) : i \in Indices, p \in Players}
    \cup {[Call("turn", 0, 0, p) EXCEPT !.notation = notation] :
            notation \in Notations, p \in Players}
    \cup {Call("not", 0, 0, p) : p \in Players \cup {None}}
    \cup {Call("new", 0, 0, None)}
    \cup {Call("all_in_home", 0, 0, p) : p \in Players}

\* no game is played while the calls are made
UnitsInit ==
  /\ unit \in UnitInputs
  /\ game \in IF unit.op = "all_in_home"
              THEN {Game(None, [v \in Faces |-> 0], b) : b \in HomeBoards}
              ELSE {NoGame}
  /\ saved = Saved(NoGame)
  /\ pc = "idle"
  /\ clone = NoGame
  /\ turn = <<>>
  /\ result = Res("None")
  /\ avail = {}
  /\ nturns = 0

\* the call is made: its result is out
Return(out) ==
  /\ unit' = [unit EXCEPT !.out = out, !.done = TRUE]
  /\ UNCHANGED game_vars

\* Dice::from and DiceRoll::from
DiceFromCall ==
  /\ unit.op = "from" /\ ~unit.done
  /\ unit' = [unit EXCEPT
                !.after = Rolls(DiceFrom(unit.a, unit.b),
                                calculate_available(unit.a, unit.b)),
                !.done = TRUE]
  /\ UNCHANGED game_vars

\* Dice::remove and DiceRoll::consume on the roll the call before left
DiceConsumeCall ==
  /\ unit.op \in {"from", "consume"} /\ unit.done
  /\ unit.res.tag \in {"None", "Ok"}
  /\ \E value \in 0 .. MaxCast :
       LET removed == try_remove(unit.after.cast_freq, value)
           consumed == DiceRoll_consume(unit.after.available, value)
       IN unit' = [unit EXCEPT
                     !.op = "consume", !.a = value, !.b = 0,
                     !.before = unit.after,
                     !.after = Rolls(removed.cast_freq, consumed.available),
                     !.res = removed.res,
                     !.res_roll = consumed.res]
  /\ UNCHANGED game_vars

\* NormalizedLocation::new
NormalizedNewCall ==
  /\ unit.op = "normalized_new" /\ ~unit.done
  /\ Return(NormalizedNew(unit.a, unit.player))

\* DenormalizedLocation::try_from
DenormalizedTryFromCall ==
  /\ unit.op = "denormalized_try_from" /\ ~unit.done
  /\ Return(DenormalizedTryFrom(unit.a))

\* IndexLocation::try_from
IndexTryFromCall ==
  /\ unit.op = "index_try_from" /\ ~unit.done
  /\ Return(IndexTryFrom(unit.a))

\* NormalizedLocation::to_index
NormalizedToIndexCall ==
  /\ unit.op = "normalized_to_index" /\ ~unit.done
  /\ Return(normalized_to_index(unit.a, unit.player))

\* DenormalizedLocation::to_index
DenormalizedToIndexCall ==
  /\ unit.op = "denormalized_to_index" /\ ~unit.done
  /\ Return(denormalized_to_index(unit.a))

\* IndexLocation::normalize(player).to_index()
IndexNormalizeCall ==
  /\ unit.op = "index_normalize" /\ ~unit.done
  /\ unit' = [unit EXCEPT
                !.b = IndexNormalize(unit.a, unit.player),
                !.out = normalized_to_index(IndexNormalize(unit.a, unit.player),
                                            unit.player),
                !.done = TRUE]
  /\ UNCHANGED game_vars

\* Notation::turn
NotationTurnCall ==
  /\ unit.op = "turn" /\ ~unit.done
  /\ LET got == Notation_turn(unit.notation, unit.player)
     IN unit' = [unit EXCEPT !.out = got.out, !.text = got.text,
                             !.plays = got.plays, !.done = TRUE]
  /\ UNCHANGED game_vars

\* Not for Player, applied to the player and then to its own result
NotCall ==
  /\ unit.op = "not" /\ unit.a < 2
  /\ unit' = [unit EXCEPT
                !.out = Made(0, Opponent(IF unit.a = 0 THEN unit.player
                                         ELSE unit.out.player)),
                !.a = unit.a + 1, !.done = TRUE]
  /\ UNCHANGED game_vars

\* Game::new: Player::random, Dice::first_roll (the roll the loop returns
\* on; DiceRoll::opening alike) and Board::new
GameNewCall ==
  /\ unit.op = "new" /\ ~unit.done
  /\ \E p \in Players, d1 \in Faces, d2 \in Faces :
       /\ all_one(DiceFrom(d1, d2))
       /\ game' = Game(p, DiceFrom(d1, d2), NewBoard)
       /\ unit' = [unit EXCEPT
                     !.a = d1, !.b = d2, !.player = p,
                     !.after = Rolls(DiceFrom(d1, d2),
                                     calculate_available(d1, d2)),
                     !.done = TRUE]
  /\ UNCHANGED <<saved, pc, clone, turn, result, avail, nturns>>

\* Board::all_in_home of the board of game
AllInHomeCall ==
  /\ unit.op = "all_in_home" /\ ~unit.done
  /\ Return(Made(IF all_in_home(game.board, unit.player) THEN 1 ELSE 0,
                 unit.player))

UnitsNext ==
  \/ DiceFromCall
  \/ DiceConsumeCall
  \/ NormalizedNewCall
  \/ DenormalizedTryFromCall
  \/ IndexTryFromCall
  \/ NormalizedToIndexCall
  \/ DenormalizedToIndexCall
  \/ IndexNormalizeCall
  \/ NotationTurnCall
  \/ NotCall
  \/ GameNewCall
  \/ AllInHomeCall

Units == UnitsInit /\ [][UnitsNext]_vars

\* ------------------------------------------------------------------------
\* check_turn and take_turn called on a game, as the tests of game.rs call
\* them: Game::from on a board with a roll, check_turn of a turn, take_turn
\* of the turn if it was accepted
\* ------------------------------------------------------------------------
\* the boards and the games the turns are checked on
TurnBoards ==
  {NewBoard, HitBoard, BarBoard, BearOffBoard, BlockedBoard, LastBoard,
   EntryBoard}
TurnGames ==
  BuiltGames \cup
  {Built(p, RollTable[i][1], RollTable[i][2], b) :
     p \in Players, i \in DOMAIN RollTable, b \in TurnBoards}

\* Game::from and the call of check_turn, up to its loop
TurnsInit ==
  /\ game \in TurnGames
  /\ saved = Saved(game)
  /\ pc = "check"
  /\ clone = game
  /\ turn = <<>>
  /\ result = Res("None")
  /\ avail = get_available_turns(game)
  /\ nturns = 0
  /\ unit = NoUnit

TurnsNext ==
  \/ CheckPlayOk
  \/ CheckPlayErr
  \/ CheckPlayPanic
  \/ CheckTurnIncomplete
  \/ CheckTurnNonMaximal
  \/ CheckTurnOk
  \/ TakePlay

Turns == TurnsInit /\ [][TurnsNext]_vars

\* ------------------------------------------------------------------------
\* The vocabulary of the rules, stated on boards and plays without the
\* operators of check_play
\* ------------------------------------------------------------------------
\* the indices of a player's home quadrant
HomeQuadrant(p) == IF p = Black THEN 0 .. 5 ELSE 18 .. 23

\* every piece the player has on the points is in the home quadrant
AllHome(b, p) ==
  \A i \in Indices \ HomeQuadrant(p) : b.points[i].player # p

\* the player has no piece on a point farther from home than the origin
NoneFarther(b, from, p) ==
  \/ from.kind # "Point"
  \/ \A i \in Indices :
       b.points[i].player = p /\ b.points[i].count > 0
         => IF p = Black THEN i <= from.index ELSE i >= from.index

\* the origin-to-destination distance of a play, in pips
Pips(play) == Distance(play.from, play.to)

\* the values of the dice that remain
Remaining(roll) == {v \in 1 .. 6 : roll[v] > 0}

\* the guards of a play, in the order of the rules
GuardTurn(g, play) == play.player = g.current_player
GuardBar(g, play) ==
  g.board.bar[play.player].count = 0 \/ play.from.kind = "Bar"
GuardFromRail(g, play) == play.from.kind # "Rail"
GuardToBar(g, play) == play.to.kind # "Bar"
GuardBearOff(g, play) ==
  play.to.kind = "Rail" => AllHome(g.board, play.player)
GuardNonEmpty(g, play) == Get(g.board, play.from).count > 0
GuardOwned(g, play) == Get(g.board, play.from).player = play.player
GuardDirection(g, play) ==
  IF play.player = Black THEN Location(play.to) < Location(play.from)
  ELSE Location(play.from) < Location(play.to)
GuardStack(g, play) ==
  ~(/\ Get(g.board, play.to).player \in Players \ {play.player}
    /\ Get(g.board, play.to).count >= 2)
GuardLength(g, play) ==
  \/ Pips(play) \in Remaining(g.current_roll)
  \/ /\ play.to.kind = "Rail"
     /\ NoneFarther(g.board, play.from, play.player)
     /\ \E v \in Remaining(g.current_roll) : Pips(play) <= v

\* guards 1-7 and 1-8 of the rules (the spec counts the two origin errors
\* as one guard, the sixth)
Passes7(g, play) ==
  /\ GuardTurn(g, play) /\ GuardBar(g, play) /\ GuardFromRail(g, play)
  /\ GuardToBar(g, play) /\ GuardBearOff(g, play) /\ GuardNonEmpty(g, play)
  /\ GuardOwned(g, play) /\ GuardDirection(g, play)
Passes8(g, play) == Passes7(g, play) /\ GuardStack(g, play)

\* the error of the first guard that fails, Ok when none does
FirstFailing(g, play) ==
  CASE ~GuardTurn(g, play)      -> Res("PlayMadeOutOfTurn")
    [] ~GuardBar(g, play)       -> Res("PlayMadeWithBarFilled")
    [] ~GuardFromRail(g, play)  -> Res("PlayMadeFromRail")
    [] ~GuardToBar(g, play)     -> Res("PlayMadeToBar")
    [] ~GuardBearOff(g, play)   -> Res("InvalidBearOff")
    [] ~GuardNonEmpty(g, play)  -> Res("PlayMadeFromEmptyPoint")
    [] ~GuardOwned(g, play)     -> Res("PlayMadeWithOpposingPiece")
    [] ~GuardDirection(g, play) -> Res("InvalidPlayDirection")
    [] ~GuardStack(g, play)     -> Res("PlayMadeOntoOpposingPiece")
    [] ~GuardLength(g, play)    -> InvalidPlayLength(Pips(play))
    [] OTHER                    -> Ok

\* some play passes check_play in the game g
SomePlayValid(g) == \E play \in InputPlays : check_play(g, play) = Ok

\* the largest total distance of the turns the enumeration produces
MaxDistance(g) ==
  LET dists == {turn_distance(t) : t \in _get_available_turns(g)}
  IN CHOOSE d \in dists : \A e \in dists : e <= d

\* the plays of a player to the rail, and onto a point
BearOffs(p) == {Play(p, from, Rail(p)) : from \in PlayerSpaces(p)}
PlaysOnto(p, i) == {Play(p, from, Point(i)) : from \in PlayerSpaces(p)}

\* ------------------------------------------------------------------------
\* C1
\* ------------------------------------------------------------------------
\* C1: in every state of the game reached through accepted and applied
\* turns, and in every state between two plays of a turn being checked or
\* applied, each player's pieces on the points, the bar and the rail sum to
\* the 15 pieces of the standard start.
Conservation ==
  /\ PIECES = 15
  /\ \A p \in Players : total(game.board, p) = PIECES
  /\ pc = "check" => \A p \in Players : total(clone.board, p) = PIECES

\* an accepted turn was applied and sent a piece to the bar
ConservationWitness ==
  /\ pc = "take"
  /\ turn = <<>>
  /\ \E p \in Players : game.board.bar[p].count > saved.board.bar[p].count

Completeness ==
  (/\ pc = "check"
   /\ any_available(clone.current_roll)
   /\ SomePlayValid(clone))
    => end_of_turn(clone, turn, avail) = Res("IncompleteTurn")

\* check_turn rejected a turn as incomplete
CompletenessWitness ==
  /\ pc = "prompt"
  /\ result = Res("IncompleteTurn")
  /\ any_available(game.current_roll)

\* ------------------------------------------------------------------------
\* C4
\* ------------------------------------------------------------------------
\* C4: check_play returns the error of the first guard that fails, in the
\* order PlayMadeOutOfTurn, PlayMadeWithBarFilled, PlayMadeFromRail,
\* PlayMadeToBar, InvalidBearOff, PlayMadeFromEmptyPoint,
\* PlayMadeWithOpposingPiece, InvalidPlayDirection,
\* PlayMadeOntoOpposingPiece, InvalidPlayLength.
GuardOrder ==
  pc = "check" =>
    \A play \in InputPlays : check_play(clone, play) = FirstFailing(clone, play)

\* C4, as far as the code goes: whenever check_play returns, it returns the
\* error of the first failing guard
GuardOrderWhenReturning ==
  pc = "check" =>
    \A play \in InputPlays :
      check_play(clone, play) \in {Panic, FirstFailing(clone, play)}

\* ------------------------------------------------------------------------
\* C5
\* ------------------------------------------------------------------------
\* C5: while the current player has a piece on the bar, every play of that
\* player from an origin that is not a bar gets PlayMadeWithBarFilled, and
\* no play of a turn that is being applied leaves a point while the bar
\* holds a piece.
BarFirst ==
  /\ (pc = "check" /\ clone.board.bar[clone.current_player].count > 0) =>
       \A play \in InputPlays :
         (play.player = clone.current_player /\ play.from.kind # "Bar")
           => check_play(clone, play) = Res("PlayMadeWithBarFilled")
  /\ (/\ pc = "take"
      /\ turn # <<>>
      /\ game.board.bar[game.current_player].count > 0)
       => Head(turn).from.kind = "Bar"

\* a turn was rejected for leaving a piece on the bar
BarFirstWitness ==
  /\ pc = "prompt"
  /\ result = Res("PlayMadeWithBarFilled")
  /\ game.board.bar[game.current_player].count > 0

\* ------------------------------------------------------------------------
\* C6
\* ------------------------------------------------------------------------
\* C6: a play to the rail is accepted by check_play only if the acting
\* player has every piece in the home quadrant, and otherwise it is rejected
\* with InvalidBearOff.
BearOffOnlyHome ==
  pc = "check" =>
    \A p \in Players : \A play \in BearOffs(p) :
      LET r == check_play(clone, play)
      IN /\ r = Ok => AllHome(clone.board, p)
         /\ ~AllHome(clone.board, p) => r = Res("InvalidBearOff")

\* C6, amended: a play to the rail is accepted by check_play only if the
\* acting player has every piece in the home quadrant; otherwise, when the
\* play is the current player's, its origin is not a rail, and its origin is
\* the bar or the bar is empty, it is rejected with InvalidBearOff.
BearOffOnlyHomeGuarded ==
  pc = "check" =>
    \A p \in Players : \A play \in BearOffs(p) :
      LET r == check_play(clone, play)
      IN /\ r = Ok => AllHome(clone.board, p)
         /\ (/\ ~AllHome(clone.board, p)
             /\ GuardTurn(clone, play)
             /\ GuardBar(clone, play)
             /\ GuardFromRail(clone, play))
              => r = Res("InvalidBearOff")

\* a turn was rejected for bearing off with a piece outside the home quadrant
BearOffOnlyHomeWitness ==
  /\ pc = "prompt"
  /\ result = Res("InvalidBearOff")
  /\ ~AllHome(game.board, game.current_player)

\* ------------------------------------------------------------------------
\* C7
\* ------------------------------------------------------------------------
\* C7: a play to the rail that passes guards 1-8 and whose distance L is not
\* among the remaining dice is accepted if and only if the player has no
\* piece farther from home than the origin and L is at most the largest
\* remaining die; otherwise check_play returns InvalidPlayLength(L).
OverLengthBearOff ==
  pc = "check" =>
    \A play \in BearOffs(clone.current_player) :
      (Passes8(clone, play) /\ Pips(play) \notin Remaining(clone.current_roll))
        => check_play(clone, play) =
             IF /\ NoneFarther(clone.board, play.from, play.player)
                /\ \E v \in Remaining(clone.current_roll) : Pips(play) <= v
             THEN Ok ELSE InvalidPlayLength(Pips(play))

\* C7, as far as the code goes: whenever check_play returns for such a play,
\* it returns what the rule says
OverLengthBearOffWhenReturning ==
  pc = "check" =>
    \A play \in BearOffs(clone.current_player) :
      (Passes8(clone, play) /\ Pips(play) \notin Remaining(clone.current_roll))
        => check_play(clone, play) \in
             {Panic,
              IF /\ NoneFarther(clone.board, play.from, play.player)
                 /\ \E v \in Remaining(clone.current_roll) : Pips(play) <= v
              THEN Ok ELSE InvalidPlayLength(Pips(play))}

\* ------------------------------------------------------------------------
\* C8
\* ------------------------------------------------------------------------
\* C8: making a validated play onto a point that holds exactly one opposing
\* piece adds one to the opponent's bar and leaves the point with one piece
\* of the mover; the opponent's rail and the other points that are the
\* opponent's before or after the play do not change.
HitMechanics ==
  pc = "check" =>
    LET p == clone.current_player
        opp == Opponent(p)
        b == clone.board
    IN \A i \in Indices :
         (b.points[i].count = 1 /\ b.points[i].player = opp) =>
           \A play \in PlaysOnto(p, i) :
             check_play(clone, play) = Ok =>
               LET b2 == make_play(clone, play).board
               IN /\ b2.bar[opp] = Position(b.bar[opp].count + 1, opp)
                  /\ b2.points[i] = Position(1, p)
                  /\ b2.rail[opp] = b.rail[opp]
                  /\ \A j \in Indices \ {i} :
                       (b.points[j].player = opp \/ b2.points[j].player = opp)
                         => b2.points[j] = b.points[j]

\* the last play checked hit a blot
HitMechanicsWitness ==
  /\ pc = "check"
  /\ turn # <<>>
  /\ LET play == turn[Len(turn)]
         opp == Opponent(clone.current_player)
     IN /\ play.to.kind = "Point"
        /\ game.board.points[play.to.index] = Position(1, opp)
        /\ clone.board.points[play.to.index] = Position(1, clone.current_player)
        /\ clone.board.bar[opp].count = game.board.bar[opp].count + 1

\* ------------------------------------------------------------------------
\* C9
\* ------------------------------------------------------------------------
\* C9: a play onto a point the opponent holds with two or more pieces gets
\* PlayMadeOntoOpposingPiece when guards 1-7 pass and is never accepted, and
\* no play of a turn being applied lands on such a point.
NoLandingOnStack ==
  /\ pc = "check" =>
       \A i \in Indices :
         (clone.board.points[i].count >= 2
            /\ clone.board.points[i].player \in Players) =>
           \A play \in PlaysOnto(Opponent(clone.board.points[i].player), i) :
             LET r == check_play(clone, play)
             IN /\ Passes7(clone, play) => r = Res("PlayMadeOntoOpposingPiece")
                /\ r # Ok
  /\ (pc = "take" /\ turn # <<>>) =>
       LET to == Get(game.board, Head(turn).to)
       IN ~(to.player = Opponent(Head(turn).player) /\ to.count >= 2)

\* a turn was rejected for landing on an opposing stack
NoLandingOnStackWitness ==
  /\ pc = "prompt"
  /\ result = Res("PlayMadeOntoOpposingPiece")
  /\ \E i \in Indices :
       /\ game.board.points[i].player = Opponent(game.current_player)
       /\ game.board.points[i].count >= 2

\* ------------------------------------------------------------------------
\* C10
\* ------------------------------------------------------------------------
\* a point has no piece exactly when it has no owner, and has pieces
\* exactly when Black or White owns it
PointsOwned(b) ==
  \A i \in Indices :
    /\ b.points[i].count >= 0
    /\ b.points[i].count = 0 <=> b.points[i].player = None
    /\ b.points[i].count > 0 <=> b.points[i].player \in Players

\* C10: on each of the 24 points, in every state reached by validated
\* plays, the count is 0 exactly when the owner is None and positive
\* exactly when the owner is Black or White.
PointInvariant ==
  /\ PointsOwned(game.board)
  /\ pc = "check" => PointsOwned(clone.board)

\* a play of an applied turn took the last piece off a point
PointInvariantWitness ==
  /\ pc = "take"
  /\ \E i \in Indices :
       /\ saved.board.points[i].count > 0
       /\ game.board.points[i] = Position(0, None)

\* ------------------------------------------------------------------------
\* C11
\* ------------------------------------------------------------------------
\* C11: check_play answers every play with Ok or a typed error and never
\* aborts; a play from the player's own occupied bar that passes guards 1-8
\* and whose distance is not among the remaining dice gets InvalidPlayLength.
TypedErrors ==
  pc = "check" =>
    /\ \A play \in InputPlays : check_play(clone, play) # Panic
    /\ \A to \in PlayerSpaces(clone.current_player) :
         LET play == Play(clone.current_player, Bar(clone.current_player), to)
         IN (Passes8(clone, play)
               /\ Pips(play) \notin Remaining(clone.current_roll))
              => check_play(clone, play) = InvalidPlayLength(Pips(play))

\* ------------------------------------------------------------------------
\* C12
\* ------------------------------------------------------------------------
\* C12: while check_turn runs, the game's board, dice and current player do
\* not change, whatever check_play and check_turn return, and when the turn
\* is rejected the board and the dice the loop goes on with are those saved
\* before the attempt.
ValidationFrame ==
  [][pc = "check" =>
       /\ game' = game
       /\ saved.board = game.board /\ saved.roll = game.current_roll
       /\ pc' = "prompt" =>
            (game'.board = saved.board /\ game'.current_roll = saved.roll)]_vars

\* a turn was rejected after check_turn had made a play on its copy
ValidationFrameWitness ==
  /\ pc = "prompt"
  /\ result.tag \in {"IncompleteTurn", "NonMaximalTurn", "InvalidPlayLength"}
  /\ game.board = saved.board
  /\ game.current_roll = saved.roll

\* ------------------------------------------------------------------------
\* C13
\* ------------------------------------------------------------------------
\* the plays of t that use the length v without bearing off
UsesOf(t, v) ==
  {k \in DOMAIN t : t[k].to.kind # "Rail" /\ Pips(t[k]) = v}

\* C13: each play of a turn is checked against the board and the dice left
\* by the earlier plays of the turn: the copy check_turn holds is the game
\* after the plays checked so far, every one of them passed check_play in
\* the state its predecessors left, no length is used more often than the
\* roll before the turn provides it, and a play to a point whose length is
\* not among the dice that are left is not accepted.
SequentialValidation ==
  pc = "check" =>
    /\ clone = take_turn(game, turn)
    /\ \A k \in DOMAIN turn :
         check_play(take_turn(game, SubSeq(turn, 1, k - 1)), turn[k]) = Ok
    /\ \A v \in 1 .. 6 : Cardinality(UsesOf(turn, v)) <= game.current_roll[v]
    /\ \A play \in InputPlays :
         (play.to.kind # "Rail" /\ Pips(play) \notin Remaining(clone.current_roll))
           => check_play(clone, play) # Ok

\* check_turn accepted a play from a point that was empty before the turn
\* and that an earlier play of the turn filled
SequentialValidationWitness ==
  /\ pc = "check"
  /\ Len(turn) >= 2
  /\ LET play == turn[Len(turn)]
     IN /\ play.from.kind = "Point"
        /\ game.board.points[play.from.index].count = 0
        /\ \E k \in 1 .. (Len(turn) - 1) : turn[k].to = play.from

\* ------------------------------------------------------------------------
\* C14
\* ------------------------------------------------------------------------
\* the number of times the length v occurs in a vector of lengths
Count(available, v) == Cardinality({i \in DOMAIN available : available[i] = v})

\* the number of times a roll of v1 and v2 provides the length v
Provided(v1, v2, v) ==
  IF v1 = v2 THEN (IF v = v1 THEN 4 ELSE 0)
  ELSE (IF v = v1 \/ v = v2 THEN 1 ELSE 0)

\* C14: a roll built from v1 and v2 in 1..6 provides exactly the lengths v1
\* and v2, once each, when they differ, and the length v four times when
\* v1 = v2 = v; this holds of Dice's cast_freq and of DiceRoll's available.
RollMultiset ==
  (unit.op = "from" /\ unit.done) =>
    /\ \A v \in 1 .. 6 :
         /\ unit.after.cast_freq[v] = Provided(unit.a, unit.b, v)
         /\ Count(unit.after.available, v) = Provided(unit.a, unit.b, v)
    /\ Len(unit.after.available) = (IF unit.a = unit.b THEN 4 ELSE 2)

\* a roll was built from a double
RollMultisetWitness ==
  /\ unit.op = "from"
  /\ unit.done
  /\ unit.a = unit.b
  /\ Len(unit.after.available) = 4

IndexRoundTrip ==
  (unit.op = "index_normalize" /\ unit.done) =>
    /\ unit.out.tag = "Ok"
    /\ unit.out.value = unit.a

\* White's index 0 went through its normalized position 24
IndexRoundTripWitness ==
  /\ unit.op = "index_normalize"
  /\ unit.done
  /\ unit.player = White
  /\ unit.a = 0
  /\ unit.b = 24

\* ------------------------------------------------------------------------
\* C17
\* ------------------------------------------------------------------------
\* C17: to_index of a normalized position p fails with the invalid-index
\* error for 0 and 25 and otherwise gives p - 1 for Black and 24 - p for
\* White; to_index of an absolute position fails for 0 and 25 and otherwise
\* gives the position minus 1.
ToIndex ==
  /\ (unit.op = "normalized_to_index" /\ unit.done) =>
       IF unit.a = 0 \/ unit.a = 25
       THEN unit.out.tag = "InvalidIndexLocation" /\ unit.out.value = unit.a
       ELSE /\ unit.out.tag = "Ok"
            /\ unit.out.value =
                 (IF unit.player = Black THEN unit.a - 1 ELSE 24 - unit.a)
  /\ (unit.op = "denormalized_to_index" /\ unit.done) =>
       IF unit.a = 0 \/ unit.a = 25
       THEN unit.out.tag = "InvalidIndexLocation" /\ unit.out.value = unit.a
       ELSE unit.out.tag = "Ok" /\ unit.out.value = unit.a - 1

\* White's normalized position 3 was converted to the index 21
ToIndexWitness ==
  /\ unit.op = "normalized_to_index"
  /\ unit.done
  /\ unit.player = White
  /\ unit.a = 3
  /\ unit.out.value = 21

\* ------------------------------------------------------------------------
\* C18
\* ------------------------------------------------------------------------
\* C18: a normalized position is created exactly when the value is in 0..25
\* and the player is not None, an absolute position exactly when the value
\* is in 0..25, an index exactly when the value is in 0..23; every other
\* input gets the invalid-position error of its kind carrying the value.
Constructors ==
  /\ (unit.op = "normalized_new" /\ unit.done) =>
       IF unit.a \in 0 .. 25 /\ unit.player \in {Black, White}
       THEN unit.out = [tag |-> "Ok", value |-> unit.a, player |-> unit.player]
       ELSE /\ unit.out.tag = "InvalidNormalizedLocation"
            /\ unit.out.value = unit.a
  /\ (unit.op = "denormalized_try_from" /\ unit.done) =>
       IF unit.a \in 0 .. 25
       THEN unit.out.tag = "Ok" /\ unit.out.value = unit.a
       ELSE /\ unit.out.tag = "InvalidDenormalizedLocation"
            /\ unit.out.value = unit.a
  /\ (unit.op = "index_try_from" /\ unit.done) =>
       IF unit.a \in 0 .. 23
       THEN unit.out.tag = "Ok" /\ unit.out.value = unit.a
       ELSE unit.out.tag = "InvalidIndexLocation" /\ unit.out.value = unit.a

\* the value 24 was refused as an index
ConstructorsWitness ==
  /\ unit.op = "index_try_from"
  /\ unit.done
  /\ unit.a = 24
  /\ unit.out.tag = "InvalidIndexLocation"

\* ------------------------------------------------------------------------
\* The grammar of a group and the space of a token, stated without the
\* operators of Notation::turn
\* ------------------------------------------------------------------------
\* the group is (DIGITS | bar) (/ DIGITS)* / (DIGITS | off)
Grammar(group) ==
  /\ Len(group) >= 2
  /\ \A k \in DOMAIN group :
       \/ group[k].kind \in {"num", "big"}
       \/ group[k].kind = "bar" /\ k = 1
       \/ group[k].kind = "off" /\ k = Len(group)

\* every number of the group is the number of a point
Converts(group) ==
  \A k \in DOMAIN group :
    /\ group[k].kind # "big"
    /\ group[k].kind = "num" => group[k].n \in 1 .. BOARD_SIZE

\* the space a token denotes for the player
SpaceOf(token, p) ==
  CASE token.kind = "bar" -> Bar(p)
    [] token.kind = "off" -> Rail(p)
    [] OTHER -> Point(IF p = Black THEN token.n - 1 ELSE BOARD_SIZE - token.n)

\* the number of plays of the groups before the j-th
RECURSIVE PlaysBefore(_, _)
PlaysBefore(notation, j) ==
  IF j <= 1 THEN 0
  ELSE PlaysBefore(notation, j - 1) + Len(notation[j - 1]) - 1

\* the first group that fails, by its grammar or by a number; 0 if none
FirstFailing_group(notation) ==
  LET bad == {j \in DOMAIN notation :
                ~Grammar(notation[j]) \/ ~Converts(notation[j])}
  IN IF bad = {} THEN 0 ELSE CHOOSE j \in bad : \A i \in bad : j <= i

\* C19: when every group of the input matches the grammar and names points
\* only, the turn parses; a group of N tokens gives N-1 plays of the player,
\* the k-th from the k-th token to the next token, so that the destination
\* of each play is the origin of the next; the plays of the groups follow
\* one another in the order of the input
ChainedPlays ==
  (unit.op = "turn" /\ unit.done /\ FirstFailing_group(unit.notation) = 0) =>
    /\ unit.out.tag = "Ok"
    /\ Len(unit.plays) = PlaysBefore(unit.notation, Len(unit.notation) + 1)
    /\ \A j \in DOMAIN unit.notation :
         LET group == unit.notation[j]
             before == PlaysBefore(unit.notation, j)
         IN /\ \A k \in 1 .. Len(group) - 1 :
                 unit.plays[before + k] =
                   Play(unit.player, SpaceOf(group[k], unit.player),
                        SpaceOf(group[k + 1], unit.player))
            /\ \A k \in 1 .. Len(group) - 2 :
                 unit.plays[before + k].to = unit.plays[before + k + 1].from

ChainedPlaysWitness ==
  /\ unit.op = "turn" /\ unit.done /\ unit.out.tag = "Ok"
  /\ Len(unit.notation) = 2
  /\ Len(unit.notation[1]) = 3 /\ Len(unit.notation[2]) = 3
  /\ Len(unit.plays) = 4
  /\ unit.plays[2].to # unit.plays[3].from

\* C20 as stated: a group that does not match the grammar makes the turn fail
\* with InvalidNotation of that group's text, and no plays are returned
BadGroupReported ==
  (unit.op = "turn" /\ unit.done) =>
    \A j \in DOMAIN unit.notation :
      ~Grammar(unit.notation[j]) =>
        /\ unit.out.tag = "InvalidNotation"
        /\ unit.text = unit.notation[j]
        /\ unit.plays = <<>>

\* C20: the first group that fails decides: when it does not match the
\* grammar the turn fails with InvalidNotation of that group's text; when it
\* matches and a number of it is not the number of a point the turn fails
\* with another error (or the parse of the number panics); no plays are
\* returned in either case, whatever the other groups are
FirstBadGroupReported ==
  (unit.op = "turn" /\ unit.done /\ FirstFailing_group(unit.notation) # 0) =>
    LET group == unit.notation[FirstFailing_group(unit.notation)]
    IN /\ unit.plays = <<>>
       /\ IF ~Grammar(group)
          THEN unit.out.tag = "InvalidNotation" /\ unit.text = group
          ELSE unit.out.tag \in {"InvalidNormalizedLocation",
                                 "InvalidIndexLocation", "Panic"}

FirstBadGroupReportedWitness ==
  /\ unit.op = "turn" /\ unit.done
  /\ Len(unit.notation) = 2
  /\ Grammar(unit.notation[1]) /\ Converts(unit.notation[1])
  /\ ~Grammar(unit.notation[2])
  /\ unit.out.tag = "InvalidNotation" /\ unit.text = unit.notation[2]
  /\ unit.plays = <<>>

\* ------------------------------------------------------------------------
\* The turns check_turn accepts
\* ------------------------------------------------------------------------
\* check_turn(t) of game g returns Ok; av is g.get_available_turns()
Accepted(g, t, av) ==
  /\ \A k \in DOMAIN t :
       check_play(take_turn(g, SubSeq(t, 1, k - 1)), t[k]) = Ok
  /\ end_of_turn(take_turn(g, t), t, av) = Ok

\* the play written from the player's side: "bar", "off" or the number of the
\* point counted from 1 at the far end of the player's home quadrant
Written(play) ==
  <<IF play.from.kind = "Bar" THEN Token("bar", 0)
    ELSE Num(IF play.player = Black
             THEN play.from.index + 1 ELSE 24 - play.from.index),
    IF play.to.kind = "Rail" THEN Token("off", 0)
    ELSE Num(IF play.player = Black
             THEN play.to.index + 1 ELSE 24 - play.to.index)>>

\* the plays of the turn are rendered without a panic, as Written says, and
\* the rendered plays parse for the player to the same plays
RoundTrips(t, p) ==
  /\ \A k \in DOMAIN t :
       Display(t[k]).out.tag = "Ok" /\ Display(t[k]).group = Written(t[k])
  /\ Notation_turn(Rendered(t), p) = Parsed(t)

\* C21: for every turn the engine accepts (a turn that passed check_turn and
\* is being taken, and every turn of get_available_turns, which are the
\* turns check_turn accepts), rendering each play as <from>/<to> from the
\* player's side and parsing the text for the same player gives the same
\* plays
RenderRoundTrip ==
  /\ pc = "check" => \A t \in avail : RoundTrips(t, game.current_player)
  /\ pc = "take" => RoundTrips(turn, game.current_player)

RenderRoundTripWitness ==
  /\ pc = "take" /\ game.current_player = White /\ game.board = saved.board
  /\ Len(turn) = 2
  /\ turn[1].from.kind = "Bar" /\ turn[2].from.kind = "Point"
  /\ Notation_turn(Rendered(turn), White) = Parsed(turn)

\* C22: the opponent of Black is White, of White Black, of None None, and
\* the opponent of the opponent is the player, for the three values
OpponentInvolution ==
  unit.op = "not" =>
    /\ unit.a = 1 =>
         unit.out.player = (CASE unit.player = "Black" -> "White"
                              [] unit.player = "White" -> "Black"
                              [] OTHER -> "None")
    /\ unit.a = 2 => unit.out.player = unit.player

OpponentInvolutionWitness ==
  unit.op = "not" /\ unit.a = 2 /\ unit.player = None /\ unit.out.player = None

\* the pieces of player p on the points of board b, as the counts by index
Layout(b, p) ==
  [i \in Indices |-> IF b.points[i].player = p THEN b.points[i].count ELSE 0]

\* C23: the board of a new game has 15 pieces of each player, in stacks of
\* 2, 5, 3 and 5 on four points, nothing on the bars and the rails, and
\* White has n pieces on index 23 - i when Black has n on index i
StartBoard ==
  (unit.op = "new" /\ unit.done) =>
    /\ Layout(game.board, Black) =
         [i \in Indices |-> CASE i = 23 -> 2 [] i = 12 -> 5 [] i = 7 -> 3
                              [] i = 5 -> 5 [] OTHER -> 0]
    /\ \A i \in Indices :
         /\ Layout(game.board, White)[23 - i] = Layout(game.board, Black)[i]
         /\ game.board.points[i].count = 0 <=> game.board.points[i].player = None
         /\ game.board.points[i].count > 0 => game.board.points[i].player \in Players
    /\ \A p \in Players :
         /\ on_points(game.board, p, 0) = 15
         /\ Cardinality({i \in Indices : Layout(game.board, p)[i] > 0}) = 4
         /\ game.board.bar[p].count = 0 /\ game.board.rail[p].count = 0

StartBoardWitness ==
  /\ unit.op = "new" /\ unit.done
  /\ Layout(game.board, White)[0] = 2 /\ Layout(game.board, Black)[23] = 2

\* C24: all_in_home(player) is true exactly when the player has no piece on
\* a point outside the home quadrant (Black: on an index above 5, White: on
\* an index below 18), whatever the other player has there
AllInHome ==
  (unit.op = "all_in_home" /\ unit.done) =>
    (unit.out.value = 1 <=>
       \A i \in Indices :
         (IF unit.player = Black THEN i > 5 ELSE i < 18) =>
           ~(game.board.points[i].player = unit.player
             /\ game.board.points[i].count > 0))

AllInHomeWitness ==
  /\ unit.op = "all_in_home" /\ unit.done /\ unit.out.value = 1
  /\ unit.player = White
  /\ game.board.points[18].player = White
  /\ \E i \in 0 .. 17 : game.board.points[i].player = Black

\* C25: the roll a new game starts with shows two different values, and
\* exactly two lengths can be played with it
OpeningRoll ==
  (unit.op = "new" /\ unit.done) =>
    /\ unit.a # unit.b
    /\ game.current_roll = unit.after.cast_freq
    /\ \A v \in Faces :
         game.current_roll[v] = (IF v \in {unit.a, unit.b} THEN 1 ELSE 0)
    /\ Len(unit.after.available) = 2
    /\ unit.after.available[1] # unit.after.available[2]
    /\ {unit.after.available[1], unit.after.available[2]} = {unit.a, unit.b}

OpeningRollWitness ==
  /\ unit.op = "new" /\ unit.done /\ unit.a = 6 /\ unit.b = 1
  /\ game.current_roll[6] = 1 /\ game.current_roll[1] = 1

\* C26: check_turn accepts a turn exactly when the turn is one of
\* get_available_turns: a turn whose plays all pass check_play is accepted
\* if and only if it is enumerated, every play of an enumerated turn passes
\* check_play after the plays before it (so that a turn with a play that
\* fails is not enumerated)
AcceptedIffAvailable ==
  pc = "check" =>
    /\ end_of_turn(clone, turn, avail) = Ok <=> turn \in avail
    /\ \A t \in avail :
         (Len(t) > Len(turn) /\ SubSeq(t, 1, Len(turn)) = turn)
           => check_play(clone, t[Len(turn) + 1]) = Ok

AcceptedIffAvailableWitness ==
  /\ pc = "check" /\ Len(turn) = 2 /\ turn \in avail
  /\ end_of_turn(clone, turn, avail) = Ok
  /\ <<turn[2], turn[1]>> \in avail
  /\ \E t \in _get_available_turns(game) : t \notin avail

\* C27: get_available_plays returns the plays of the current player that
\* check_play accepts, all of them and no other; with a piece on the
\* player's bar every play it returns starts from the bar
AvailablePlaysExact ==
  pc = "check" =>
    /\ get_available_plays(clone) =
         {play \in InputPlays :
            play.player = clone.current_player /\ check_play(clone, play) = Ok}
    /\ clone.board.bar[clone.current_player].count > 0 =>
         \A play \in get_available_plays(clone) :
           play.from = Bar(clone.current_player)

AvailablePlaysExactWitness ==
  /\ pc = "check"
  /\ clone.board.bar[clone.current_player].count > 0
  /\ Cardinality(get_available_plays(clone)) >= 2

\* what get_available_turns returns for game g is av: it is not empty, the
\* empty turn is in it exactly when no play is available, then it is the
\* only turn and check_turn accepts it, and some turn of av is accepted
NeverStuck(g, av) ==
  /\ av # {}
  /\ <<>> \in av <=> get_available_plays(g) = {}
  /\ <<>> \in av => av = {<<>>} /\ Accepted(g, <<>>, av)
  /\ \E t \in av : Accepted(g, t, av)

\* C28: whenever the loop prompts for a turn, get_available_turns of the
\* game is not empty, holds the empty turn exactly when no single play is
\* available, and check_turn accepts a turn of it (the empty turn when no
\* play is available), so that the prompted player has a turn to enter
AlwaysATurn ==
  pc = "prompt" => NeverStuck(game, get_available_turns(game))

AlwaysATurnWitness ==
  /\ pc = "prompt"
  /\ game.board.bar[game.current_player].count > 0
  /\ get_available_plays(game) = {}
  /\ Accepted(game, <<>>, get_available_turns(game))

\* the uses a roll has left
RECURSIVE SumFrom(_, _)
SumFrom(roll, v) == IF v > 6 THEN 0 ELSE roll[v] + SumFrom(roll, v + 1)
DiceLeft(roll) == SumFrom(roll, 1)

\* the greatest value a roll has left
Largest(roll) ==
  CHOOSE v \in Remaining(roll) : \A w \in Remaining(roll) : w <= v

\* C29: each play made after check_play accepted it takes one use from the
\* roll, so the plays made and the uses left add up to the uses of the roll
\* the turn started with (2, or 4 for a double); every enumerated turn and
\* every turn being checked has at most that many plays, and with no use
\* left no play is available, where the recursion of the enumeration ends
OneDiePerPlay ==
  pc = "check" =>
    LET uses == DiceLeft(game.current_roll)
    IN /\ uses = (IF \E v \in 1 .. 6 : game.current_roll[v] > 1 THEN 4 ELSE 2)
       /\ DiceLeft(clone.current_roll) + Len(turn) = uses
       /\ \A t \in avail : Len(t) <= uses
       /\ turn = <<>> => \A t \in _get_available_turns(game) : Len(t) <= uses
       /\ DiceLeft(clone.current_roll) = 0 =>
            /\ get_available_plays(clone) = {}
            /\ _get_available_turns(clone) = {<<>>}

OneDiePerPlayWitness ==
  /\ pc = "check" /\ Len(turn) = 4 /\ turn \in avail
  /\ DiceLeft(clone.current_roll) = 0
  /\ DiceLeft(game.current_roll) = 4

\* C30: a play made after check_play accepted it (on the copy of check_turn,
\* and on the game by take_turn) takes one use of the value equal to its
\* distance when the roll has that value left; otherwise the play is a
\* bear-off shorter than the greatest value left and takes one use of that
\* value; no other value of the roll changes
ConsumedDie ==
  [][/\ (pc = "check" /\ pc' = "check" /\ Len(turn') = Len(turn) + 1) =>
          LET play == turn'[Len(turn')]
              roll == clone.current_roll
          IN IF Pips(play) \in Remaining(roll)
             THEN clone'.current_roll = [roll EXCEPT ![Pips(play)] = @ - 1]
             ELSE /\ play.to.kind = "Rail"
                  /\ Pips(play) < Largest(roll)
                  /\ clone'.current_roll = [roll EXCEPT ![Largest(roll)] = @ - 1]
     /\ (pc = "take" /\ pc' = "take" /\ Len(turn') = Len(turn) - 1) =>
          LET play == turn[1]
              roll == game.current_roll
          IN IF Pips(play) \in Remaining(roll)
             THEN game'.current_roll = [roll EXCEPT ![Pips(play)] = @ - 1]
             ELSE /\ play.to.kind = "Rail"
                  /\ Pips(play) < Largest(roll)
                  /\ game'.current_roll = [roll EXCEPT ![Largest(roll)] = @ - 1]
    ]_vars

ConsumedDieWitness ==
  /\ pc = "check" /\ Len(turn) = 1
  /\ turn[1].to.kind = "Rail"
  /\ Pips(turn[1]) \notin Remaining(game.current_roll)
  /\ Cardinality(Remaining(game.current_roll)) = 2
  /\ clone.current_roll =
       [game.current_roll EXCEPT ![Largest(game.current_roll)] = @ - 1]

\* ------------------------------------------------------------------------
\* C31
\* ------------------------------------------------------------------------
\* C31: with no use of the roll left, check_play returns
\* InvalidPlayLength(L) for every play of distance L that passes guards 1-8,
\* a bear-off from a point with no piece behind it included.
ExhaustedRollRejects ==
  (pc = "check" /\ DiceLeft(clone.current_roll) = 0) =>
    \A play \in InputPlays :
      Passes8(clone, play)
        => check_play(clone, play) = InvalidPlayLength(Pips(play))

\* C31, as far as the code goes: with no use of the roll left no play is
\* accepted, and a play that passes guards 1-8 gets InvalidPlayLength(L)
\* unless check_play aborts, which it does for the bear-off from a point
\* with no piece behind it (Dice::max) and for an origin on the bar
ExhaustedRollRejectsWhenReturning ==
  (pc = "check" /\ DiceLeft(clone.current_roll) = 0) =>
    \A play \in InputPlays :
      Passes8(clone, play)
        => check_play(clone, play) =
             IF \/ play.from.kind = "Bar"
                \/ /\ play.to.kind = "Rail"
                   /\ NoneFarther(clone.board, play.from, play.player)
             THEN Panic ELSE InvalidPlayLength(Pips(play))

AllValidate(g, t) ==
  \A k \in DOMAIN t :
    check_play(take_turn(g, SubSeq(t, 1, k - 1)), t[k]) = Ok

\* after the turn a use of the roll is left and a play can be made
PlaysLeft(g) == DiceLeft(g.current_roll) > 0 /\ SomePlayValid(g)

\* the same, with the plays get_available_plays returns (they are the plays
\* check_play accepts)
Available(g) == DiceLeft(g.current_roll) > 0 /\ get_available_plays(g) # {}

\* C33: check_turn returns the error of the first play that fails
\* check_play, whatever the state of the dice and the plays before it;
\* otherwise IncompleteTurn when a use of the roll is left and a play can be
\* made after the turn, whether the turn is among the maximal ones or not;
\* NonMaximalTurn only when every play validated and no use is left or no
\* play can be made.  Checked for each turn being checked and for each turn
\* that has one more play.
CheckTurnPrecedence ==
  pc = "check" =>
    /\ AllValidate(game, turn)
    /\ LET r == check_turn_loop(clone, turn, <<>>, avail)
       IN /\ PlaysLeft(clone) => r = Res("IncompleteTurn")
          /\ r = Res("NonMaximalTurn") <=> (~PlaysLeft(clone) /\ turn \notin avail)
          /\ r \in {Ok, Res("IncompleteTurn"), Res("NonMaximalTurn")}
    /\ \A play \in InputPlays :
         LET r == check_turn_loop(clone, turn, <<play>>, avail)
             first == check_play(clone, play)
         IN /\ first # Ok => r = first
            /\ first = Ok =>
                 r = IF Available(make_play(clone, play))
                     THEN Res("IncompleteTurn")
                     ELSE IF Append(turn, play) \notin avail
                          THEN Res("NonMaximalTurn") ELSE Ok

\* a play fails after a play that left the turn incomplete and not maximal:
\* its error is returned; and a turn that is incomplete and not among the
\* maximal ones gets IncompleteTurn
CheckTurnPrecedenceWitness ==
  /\ pc = "check" /\ Len(turn) = 1
  /\ PlaysLeft(clone) /\ turn \notin avail
  /\ \A t \in avail : t[1] # turn[1]
  /\ check_turn(game, turn) = Res("IncompleteTurn")
  /\ \E play \in InputPlays :
       /\ check_play(clone, play) = Res("InvalidPlayDirection")
       /\ check_turn(game, Append(turn, play)) = Res("InvalidPlayDirection")

\* ------------------------------------------------------------------------
\* C34
\* ------------------------------------------------------------------------
\* the absolute location of a space of player p: a point counts from 1, the
\* bar and the rail are the two ends, 0 and 25
Absolute(s, p) ==
  CASE s.kind = "Point" -> s.index + 1
    [] s.kind = "Bar"   -> IF p = Black THEN 25 ELSE 0
    [] s.kind = "Rail"  -> IF p = Black THEN 0 ELSE 25

\* the play moves forward for its player
Forward(play) ==
  IF play.player = Black
  THEN Absolute(play.to, Black) < Absolute(play.from, Black)
  ELSE Absolute(play.to, White) > Absolute(play.from, White)

\* guards 1-6 of the rules: the turn, the bar, the rail as origin, the bar
\* as destination, the bear-off and the origin
Passes6(g, play) ==
  /\ GuardTurn(g, play) /\ GuardBar(g, play) /\ GuardFromRail(g, play)
  /\ GuardToBar(g, play) /\ GuardBearOff(g, play) /\ GuardNonEmpty(g, play)
  /\ GuardOwned(g, play)

\* C34: every play check_play accepts moves forward for its player (to a
\* smaller absolute location for Black, to a greater one for White), and so
\* does every play of a turn being checked; a play that passes guards 1-6
\* and does not move forward gets InvalidPlayDirection.
ForwardOnly ==
  pc = "check" =>
    /\ \A k \in DOMAIN turn : Forward(turn[k])
    /\ \A play \in InputPlays :
         /\ check_play(clone, play) = Ok => Forward(play)
         /\ (Passes6(clone, play) /\ ~Forward(play))
              => check_play(clone, play) = Res("InvalidPlayDirection")

\* a play was accepted, and a play back to the point the piece came from
\* and a play that stays on its point get InvalidPlayDirection
ForwardOnlyWitness ==
  /\ pc = "check" /\ Len(turn) = 1
  /\ turn[1].from.kind = "Point" /\ turn[1].to.kind = "Point"
  /\ check_play(clone, Play(turn[1].player, turn[1].to, turn[1].from))
       = Res("InvalidPlayDirection")
  /\ check_play(clone, Play(turn[1].player, turn[1].to, turn[1].to))
       = Res("InvalidPlayDirection")

\* ------------------------------------------------------------------------
\* C35
\* ------------------------------------------------------------------------
\* the pieces of each player on the rail of board b are at least those of a
RailsKept(a, b) ==
  \A p \in Players : b.rail[p].count >= a.rail[p].count

\* C35: no step of the game takes a piece from a rail: the rail counts of
\* the game never decrease from turn to turn, nor do those of check_turn's
\* copy from play to play; and a play from a rail that passes guards 1-2
\* (the player is to move and has no piece on the bar) gets PlayMadeFromRail.
RailNeverDecreases ==
  [][/\ RailsKept(game.board, game'.board)
     /\ (pc = "check" /\ pc' = "check") => RailsKept(clone.board, clone'.board)
     /\ pc = "check" =>
          \A play \in InputPlays :
            (play.from.kind = "Rail" /\ GuardTurn(clone, play)
               /\ GuardBar(clone, play))
              => check_play(clone, play) = Res("PlayMadeFromRail")
    ]_vars

\* after a turn that bore two pieces off, a play of the opponent from a rail
\* that holds pieces is rejected
RailNeverDecreasesWitness ==
  /\ pc = "prompt" /\ nturns = 1
  /\ game.board.rail[Opponent(game.current_player)].count = 13
  /\ game.board.rail[game.current_player].count > 0
  /\ \E play \in InputPlays :
       /\ play.from = Rail(game.current_player)
       /\ check_play(game, play) = Res("PlayMadeFromRail")

\* ------------------------------------------------------------------------
\* C36
\* ------------------------------------------------------------------------
\* a roll as it is cast: two dice, a double counted four times
Fresh(roll) ==
  \E d1 \in 1 .. 6, d2 \in 1 .. 6 :
    roll = [v \in 1 .. 6 |->
              IF d1 = d2 THEN (IF v = d1 THEN 4 ELSE 0)
              ELSE (IF v \in {d1, d2} THEN 1 ELSE 0)]

\* C36: in the loop the current player changes only in the step after the
\* last play of an accepted turn was made, and then to the opponent, with a
\* fresh roll, on the board the turn left, and the loop prompts; that step
\* is the only one the loop takes there unless the game is over.  A read
\* that does not parse and a turn check_turn rejects leave the player, the
\* roll and the board, and the loop prompts the same player again.
PlayerChange ==
  [][/\ game'.current_player # game.current_player =>
          /\ pc = "take" /\ turn = <<>> /\ result = Ok
          /\ game'.current_player \in Players \ {game.current_player}
          /\ Fresh(game'.current_roll)
          /\ game'.board = game.board
          /\ pc' = "prompt"
     /\ (pc = "take" /\ turn = <<>> /\ pc' # "won") =>
          game'.current_player # game.current_player
     /\ (pc = "take" /\ turn # <<>>) =>
          game'.current_player = game.current_player
     /\ (pc = "prompt" /\ pc' = "prompt") =>
          (game' = game /\ result'.tag \notin {"Ok", "None"})
     /\ (pc = "check" /\ pc' = "prompt") =>
          (game' = game /\ result'.tag \notin {"Ok", "None"})
    ]_vars

\* Black's turn, which bore two pieces off, was taken and the loop prompts
\* White with a fresh roll
PlayerChangeWitness ==
  /\ pc = "prompt" /\ nturns = 1 /\ result = Ok
  /\ game.current_player = White
  /\ game.board.rail[Black].count = 13
  /\ Fresh(game.current_roll)
  /\ saved = Saved(game)

\* ------------------------------------------------------------------------
\* C37
\* ------------------------------------------------------------------------
\* player p has each of the 15 pieces on the rail, none on a point or the bar
BorneOff(b, p) ==
  /\ b.rail[p].count = 15
  /\ b.bar[p].count = 0
  /\ \A i \in Indices : b.points[i].player # p

MirrorPlayer(p) == IF p = Black THEN White ELSE IF p = White THEN Black ELSE p
MirrorPosition(pos) == [count |-> pos.count, player |-> MirrorPlayer(pos.player)]
MirrorBoard(b) ==
  [points |-> [i \in Indices |-> MirrorPosition(b.points[23 - i])],
   bar    |-> [p \in Players |-> MirrorPosition(b.bar[MirrorPlayer(p)])],
   rail   |-> [p \in Players |-> MirrorPosition(b.rail[MirrorPlayer(p)])]]
MirrorGame(g) ==
  [current_player |-> MirrorPlayer(g.current_player),
   current_roll |-> g.current_roll,
   board |-> MirrorBoard(g.board)]
MirrorSpace(s) ==
  IF s.kind = "Point" THEN Point(23 - s.index)
  ELSE [s EXCEPT !.player = MirrorPlayer(s.player)]
MirrorPlay(play) ==
  [player |-> MirrorPlayer(play.player), from |-> MirrorSpace(play.from),
   to |-> MirrorSpace(play.to)]
MirrorTurn(t) == [k \in DOMAIN t |-> MirrorPlay(t[k])]

\* C38: the mirror image of a game gives, for the mirror image of a play or
\* of a turn, the result the game gives for the play or the turn (Ok, the
\* same error with the same length, or the same abort), and its available
\* plays and turns are the mirror images of the game's.
MirrorSymmetry ==
  pc = "check" =>
    LET mirror == MirrorGame(clone)
        mavail == {MirrorTurn(t) : t \in avail}
    IN /\ turn = <<>> => get_available_turns(mirror) = mavail
       /\ get_available_plays(mirror)
            = {MirrorPlay(play) : play \in get_available_plays(clone)}
       /\ check_turn_loop(mirror, MirrorTurn(turn), <<>>, mavail)
            = check_turn_loop(clone, turn, <<>>, avail)
       /\ \A play \in InputPlays :
            LET r == check_play(clone, play)
            IN /\ check_play(mirror, MirrorPlay(play)) = r
               /\ r = Ok =>
                    check_turn_loop(mirror, MirrorTurn(turn),
                                    <<MirrorPlay(play)>>, mavail)
                      = check_turn_loop(clone, turn, <<play>>, avail)

\* White bears off with a roll greater than the way of the piece after a
\* play within the home table, and the turn is not among the maximal ones:
\* the same holds for Black in the mirror image
MirrorSymmetryWitness ==
  /\ pc = "check" /\ Len(turn) = 2
  /\ game.current_player = White
  /\ MirrorBoard(game.board) # game.board
  /\ turn[2].to = Rail(White)
  /\ Pips(turn[2]) \notin Remaining(game.current_roll)
  /\ check_turn(game, turn) = Res("NonMaximalTurn")
  /\ check_turn(MirrorGame(game), MirrorTurn(turn)) = Res("NonMaximalTurn")
  /\ MirrorTurn(turn)[2].to = Rail(Black)

\* ------------------------------------------------------------------------
\* C39
\* ------------------------------------------------------------------------
\* C39: no step of make_play fails when take_turn makes the plays of a turn
\* check_turn accepted, nor when the enumeration (or the loop of check_turn)
\* makes a play get_available_plays returned (a play check_play accepted)
\* in a game reached through such plays: the two assertions hold, the die
\* removed is available and the origin holds a piece.
MakePlaySafe ==
  /\ (pc = "take" /\ turn # <<>>) =>
       /\ make_play_fails(game, Head(turn)) = "Ok"
       /\ check(game.current_roll, Pips(Head(turn)))
            \/ check(game.current_roll, max(game.current_roll))
       /\ Get(game.board, Head(turn).from).count > 0
  /\ pc = "check" =>
       \A play \in get_available_plays(clone) :
         /\ make_play_fails(clone, play) = "Ok"
         /\ check(clone.current_roll, Pips(play))
              \/ /\ play.to.kind = "Rail"
                 /\ NoneFarther(clone.board, play.from, play.player)
                 /\ check(clone.current_roll, max(clone.current_roll))
         /\ Get(clone.board, play.from).count > 0

\* take_turn is about to bear a piece off with a roll greater than its way,
\* the second play of the turn: the two assertions of make_play are reached
MakePlaySafeWitness ==
  /\ pc = "take" /\ Len(turn) = 1
  /\ turn[1].to.kind = "Rail"
  /\ ~check(game.current_roll, Pips(turn[1]))
  /\ game.board # saved.board
  /\ make_play_fails(game, turn[1]) = "Ok"

====
